---------------------------- MODULE Spec2Model ----------------------------
(***************************************************************************)
(* A model of the Qblox pulse-schedule compiler of quantify-scheduler:     *)
(* the Q1ASM emitter (QASMProgram, generate_qasm_program), the frequency   *)
(* resolver, the waveform tables and the port-clock indexer.               *)
(*                                                                         *)
(* Conventions.                                                            *)
(*  - Schedule times (float seconds in the code) are integers counting     *)
(*    half nanoseconds, so that the rounding of to_pulsar_time is visible. *)
(*  - Python's None is the empty sequence <<>>, a value v is <<v>>.        *)
(*  - A function that may raise returns a record with a field err:         *)
(*    "none" when it returned, the exception otherwise.                    *)
(***************************************************************************)
EXTENDS Integers, Sequences, FiniteSets, TLC

VARIABLES
    \* ---- Q1ASM emitter (Pulsar_sequencer_base.compile) ----
    pulses,           \* Pulsar_sequencer_base.pulses
    acquisitions,     \* Pulsar_sequencer_base.acquisitions
    total_play_time,  \* InstrumentCompiler.total_play_time (half ns)
    repetitions,      \* schedule.repetitions
    seq_type,         \* class of the sequencer: "QCM" or "QRM"
    awg_dict,         \* result of _generate_awg_dict
    acq_dict,         \* result of _generate_acq_dict
    qasm,             \* the QASMProgram object: [instrs, elapsed_time]
    op_queue,         \* the deque of generate_qasm_program
    operation,        \* the loop variable of generate_qasm_program
    pc,               \* position in generate_qasm_program
    err,              \* exception that ended generate_qasm_program, or "none"
    \* ---- frequency resolution (hardware_compile) ----
    hw_mapping,       \* the outputs of the hardware mapping, in order
    resources,        \* schedule.resources: frequency of each output's clock
    lo_compilers,     \* dict of LocalOscillator._lo_freq by lo_name
    modulation_freq,  \* settings.modulation_freq of each output's sequencer
    fpc,              \* position in hardware_compile
    ferr,             \* exception that ended hardware_compile, or "none"
    freqs,            \* last call of determine_clock_lo_interm_freqs
    extracted,        \* last call of _extract_interm_freq
    \* ---- assign_frequency called on single objects ----
    lo_obj,           \* a LocalOscillator: its _lo_freq
    seq_obj,          \* a sequencer: its settings.modulation_freq
    last_call,        \* the last call of assign_frequency and how it ended
    n_calls,          \* number of calls made
    \* ---- port-clock index (hardware_compile) ----
    hardware_map,     \* the sequencer slots of the mapping, device by device
    portclock_map,    \* dict (port, clock) -> device name
    portclock_to_seq, \* per device: dict (port, clock) -> sequencer name
    mpc,              \* position in hardware_compile
    merr,             \* exception that ended it, or "none"
    \* ---- waveform tables of one sequencer ----
    seq_pulses,       \* the pulses added to the sequencer
    output_mode,      \* "complex" or "real"
    old_awg_dict,     \* the table that _generate_awg_dict returned last
    old_plays,        \* the indices of the play of each pulse, from that table
    wf_dict,          \* the table that generate_data fills
    strategies,       \* the pulse strategies that generate_data has run for
    werr,             \* exception raised by generate_data, or "none"
    \* ---- amplitude check of one sequencer (_generate_awg_dict) ----
    amp_type,    \* class of the sequencer: "QCM" or "QRM"
    amp_pulses,  \* the pulses added to the sequencer
    amp_out,     \* the call of _generate_awg_dict and how it ended
    \* ---- distribution of the operations and compilation of the devices ----
    dist_variant,       \* the distributor: "helpers" or "qblox_backend"
    dist_hw,            \* the sequencer slots of the hardware mapping
    schedule,           \* the schedulables of the schedule, in order
    device_compilers,   \* per device: the dicts _pulses and _acquisitions
    dist_total,         \* total_play_time of the device compilers (half ns)
    compiled_schedule,  \* the dict that hardware_compile returns
    dpc,                \* position in hardware_compile
    derr,                \* exception that ended it, or "none"
    \* ---- a QASMProgram driven by direct calls of its methods ----
    prog_qasm,   \* the QASMProgram object: [instrs, elapsed_time]
    prog_call,   \* the last call made on it, its arguments and how it ended
    prog_calls,   \* number of calls made
    \* ---- the same input compiled several times ----
    hash_seed,  \* the seed of hash() in the running interpreter (PYTHONHASHSEED)
    det_runs,    \* the compilations made so far, each with its process and result
    \* ---- the schedule handed to pulsar_assembler_backend ----
    pb_schedule,  \* the Schedule object: operations, timing_constraints, resources
    pb_call,      \* the last call of pulsar_assembler_backend and how its loop ended
    pb_calls      \* number of calls made

qasm_vars == <<pulses, acquisitions, total_play_time, repetitions, seq_type,
               awg_dict, acq_dict, qasm, op_queue, operation, pc, err>>

freq_vars == <<hw_mapping, resources, lo_compilers, modulation_freq, fpc, ferr,
               freqs, extracted>>

assign_vars == <<lo_obj, seq_obj, last_call, n_calls>>

map_vars == <<hardware_map, portclock_map, portclock_to_seq, mpc, merr>>

wf_vars == <<seq_pulses, output_mode, old_awg_dict, old_plays, wf_dict,
             strategies, werr>>

amp_vars == <<amp_type, amp_pulses, amp_out>>

dist_vars == <<dist_variant, dist_hw, schedule, device_compilers, dist_total,
               compiled_schedule, dpc, derr>>

prog_vars == <<prog_qasm, prog_call, prog_calls>>

det_vars == <<hash_seed, det_runs>>

pb_vars == <<pb_schedule, pb_call, pb_calls>>

not_qasm_vars == <<freq_vars, assign_vars, map_vars, wf_vars,
    amp_vars,
    dist_vars,
    prog_vars,
    det_vars,
    pb_vars>>
not_freq_vars == <<qasm_vars, assign_vars, map_vars, wf_vars,
    amp_vars,
    dist_vars,
    prog_vars,
    det_vars,
    pb_vars>>
not_assign_vars == <<qasm_vars, freq_vars, map_vars, wf_vars,
    amp_vars,
    dist_vars,
    prog_vars,
    det_vars,
    pb_vars>>
not_map_vars == <<qasm_vars, freq_vars, assign_vars, wf_vars,
    amp_vars,
    dist_vars,
    prog_vars,
    det_vars,
    pb_vars>>
not_wf_vars == <<qasm_vars, freq_vars, assign_vars, map_vars,
    amp_vars,
    dist_vars,
    prog_vars,
    det_vars,
    pb_vars>>

not_amp_vars == <<qasm_vars, freq_vars, assign_vars, map_vars, wf_vars,
    dist_vars,
    prog_vars,
    det_vars,
    pb_vars>>

not_dist_vars == <<qasm_vars, freq_vars, assign_vars, map_vars, wf_vars,
    amp_vars,
    prog_vars,
    det_vars,
    pb_vars>>

not_prog_vars == <<qasm_vars, freq_vars, assign_vars, map_vars, wf_vars, amp_vars, dist_vars,
    det_vars,
    pb_vars>>

not_det_vars == <<qasm_vars, freq_vars, assign_vars, map_vars, wf_vars, amp_vars, dist_vars, prog_vars,
    pb_vars>>

not_pb_vars == <<qasm_vars, freq_vars, assign_vars, map_vars, wf_vars, amp_vars, dist_vars, prog_vars, det_vars>>

vars == <<qasm_vars, freq_vars, assign_vars, map_vars, wf_vars,
    amp_vars,
    dist_vars,
    prog_vars,
    det_vars,
    pb_vars>>

-----------------------------------------------------------------------------
(* Generic helpers *)

Abs(x) == IF x < 0 THEN -x ELSE x
None == <<>>
Some(v) == <<v>>
IsNone(x) == x = <<>>
Val(x) == x[1]

Ok(q) == [q |-> q, err |-> "none"]
Raise(q, e) == [q |-> q, err |-> e]

Max(a, b) == IF a >= b THEN a ELSE b

RECURSIVE SumSeq(_)
SumSeq(s) == IF s = <<>> THEN 0 ELSE Head(s) + SumSeq(Tail(s))

\* n half nanoseconds for a time of n ns
Ns(n) == 2 * n

\* A Python dict is the sequence of its items [key, value] in insertion order
HasKey(dict, key) == \E i \in 1..Len(dict) : dict[i].key = key

Lookup(dict, key) == dict[CHOOSE i \in 1..Len(dict) : dict[i].key = key]

SetKey(dict, key, value) ==
    IF HasKey(dict, key)
    THEN [i \in 1..Len(dict) |->
             IF dict[i].key = key THEN [dict[i] EXCEPT !.value = value]
             ELSE dict[i]]
    ELSE Append(dict, [key |-> key, value |-> value])

-----------------------------------------------------------------------------
(* The state of a component that a specification does not exercise *)

IdleQasm ==
    /\ pulses = <<>>
    /\ acquisitions = <<>>
    /\ total_play_time = 0
    /\ repetitions = 1
    /\ seq_type = "QCM"
    /\ awg_dict = None
    /\ acq_dict = None
    /\ qasm = [instrs |-> <<>>, elapsed_time |-> 0]
    /\ op_queue = <<>>
    /\ operation = None
    /\ pc = "idle"
    /\ err = "none"

NoFrequencies ==
    [called |-> FALSE, clock_freq |-> 0, lo_freq |-> None,
     interm_freq |-> None, downconverter_freq |-> None, mix_lo |-> TRUE,
     f_clock |-> None, f_LO |-> None, f_IF |-> None, err |-> "none"]

IdleFreq ==
    /\ hw_mapping = <<>>
    /\ resources = <<>>
    /\ lo_compilers = <<>>
    /\ modulation_freq = <<>>
    /\ fpc = "idle"
    /\ ferr = "none"
    /\ freqs = NoFrequencies
    /\ extracted = NoFrequencies

NoCall == [target |-> "none", freq |-> None, err |-> "none"]

IdleAssign ==
    /\ lo_obj = None
    /\ seq_obj = None
    /\ last_call = NoCall
    /\ n_calls = 0

IdleMap ==
    /\ hardware_map = <<>>
    /\ portclock_map = <<>>
    /\ portclock_to_seq = <<>>
    /\ mpc = "idle"
    /\ merr = "none"

IdleWf ==
    /\ seq_pulses = <<>>
    /\ output_mode = "complex"
    /\ old_awg_dict = <<>>
    /\ old_plays = <<>>
    /\ wf_dict = <<>>
    /\ strategies = <<>>
    /\ werr = "idle"

NoAwgDict == [called |-> FALSE, pulses |-> <<>>, err |-> "none", dict |-> <<>>]

IdleAmp ==
    /\ amp_type = "QCM"
    /\ amp_pulses = <<>>
    /\ amp_out = NoAwgDict

NoProgCall == [name |-> "none", err |-> "none"]

NoPbCall == [name |-> "none", loop_err |-> "none"]

IdlePb ==
    /\ pb_schedule = [operations |-> <<>>, timing_constraints |-> <<>>,
                      resources |-> <<>>]
    /\ pb_call = NoPbCall
    /\ pb_calls = 0

IdleDet ==
    /\ hash_seed = 0
    /\ det_runs = <<>>

IdleProg ==
    /\ prog_qasm = [instrs |-> <<>>, elapsed_time |-> 0]
    /\ prog_call = NoProgCall
    /\ prog_calls = 0

IdleDist ==
    /\ dist_variant = "helpers"
    /\ dist_hw = <<>>
    /\ schedule = <<>>
    /\ device_compilers = <<>>
    /\ dist_total = 0
    /\ compiled_schedule = <<>>
    /\ dpc = "idle"
    /\ derr = "none"

-----------------------------------------------------------------------------
(* Program constants *)

IMMEDIATE_SZ == 65535
GRID_TIME_ns == 4
MIN_TIME_BETWEEN_ACQUISITIONS == 1000

\* Maximum output voltage of the AWG, in V, per class of sequencer
AWG_OUTPUT_VOLT_QCM == 5
AWG_OUTPUT_VOLT_QRM == 1

AWG_OUTPUT_VOLT(type) ==
    IF type = "QCM" THEN AWG_OUTPUT_VOLT_QCM ELSE AWG_OUTPUT_VOLT_QRM

-----------------------------------------------------------------------------
(* Model bounds and inputs *)

MaxOps == 3

\* Start times (abs_time + t0) of the operations, in half ns: on the grid,
\* off the grid (6 ns), between two integers (4.5 ns), and further than one
\* wait immediate from the previous operation.
StartTimes == {Ns(0), Ns(4), 9, Ns(6), Ns(65536), Ns(131072)}

\* End times of the operations that other sequencers play (half ns).
OtherEnds == {Ns(0), Ns(200000)}

RepetitionCounts == {1, 3}

\* The pulse records of the schedule, by fingerprint (uuid): duration in ns.
PulseUuids == {"p4", "p20"}
AcqUuids == {"a100"}

Duration(uuid) ==
    CASE uuid = "p4" -> 4
      [] uuid = "p20" -> 20
      [] uuid = "r20" -> 20
      [] uuid = "p4e" -> 4
      [] OTHER -> 100

\* Amplitudes of the I and Q paths in mV, as normalize_waveform_data returns
\* them for the waveform of the pulse.
Amplitude(uuid) ==
    CASE uuid = "p4" -> [amp_i |-> 500, amp_q |-> 0]
      [] uuid = "p20" -> [amp_i |-> 250, amp_q |-> 250]
      [] uuid = "r20" -> [amp_i |-> 250, amp_q |-> 0]
      [] uuid = "p4e" -> [amp_i |-> 100, amp_q |-> 0]
      [] uuid = "v700" -> [amp_i |-> 700, amp_q |-> 0]
      [] uuid = "v1000" -> [amp_i |-> 0, amp_q |-> 1000]
      [] uuid = "v2500" -> [amp_i |-> 2500, amp_q |-> 2500]
      [] uuid = "v3000" -> [amp_i |-> 0, amp_q |-> -3000]
      [] uuid = "v5000" -> [amp_i |-> -5000, amp_q |-> 0]
      [] uuid = "v6000" -> [amp_i |-> 6000, amp_q |-> 100]
      [] OTHER -> [amp_i |-> 0, amp_q |-> 0]

\* A sample <<q, e>> of a normalised waveform has the value
\* q / 4 + e * 1e-13, with |e| <= 4.
Sample(q) == <<q, 0>>

\* The normalised samples of the waveform of a pulse or the weights of an
\* acquisition (a short vector stands for the sampled waveform): a square
\* pulse, a pulse with both quadratures, a ramp, and the square pulse with
\* numerical noise on a sample.
WaveformData(uuid) ==
    CASE uuid = "p4" -> [real |-> <<Sample(4), Sample(4)>>,
                         imag |-> <<Sample(0), Sample(0)>>]
      [] uuid = "p20" -> [real |-> <<Sample(4), Sample(2)>>,
                          imag |-> <<Sample(2), Sample(4)>>]
      [] uuid = "r20" -> [real |-> <<Sample(4), Sample(2)>>,
                          imag |-> <<Sample(0), Sample(0)>>]
      [] uuid = "p4e" -> [real |-> <<<<4, -1>>, Sample(4)>>,
                          imag |-> <<Sample(0), Sample(0)>>]
      [] OTHER -> [real |-> <<Sample(4), Sample(4)>>,
                   imag |-> <<Sample(4), Sample(4)>>]

-----------------------------------------------------------------------------
(* OpInfo *)

OpInfo(uuid, timing, is_acq) ==
    [uuid |-> uuid, timing |-> timing, is_acquisition |-> is_acq,
     duration |-> Duration(uuid), pulse_settings |-> None]

PulseOps == {OpInfo(u, t, FALSE) : u \in PulseUuids, t \in StartTimes}
AcqOps == {OpInfo(u, t, TRUE) : u \in AcqUuids, t \in StartTimes}

SeqsUpTo(S, n) == UNION {[1..k -> S] : k \in 0..n}

-----------------------------------------------------------------------------
(* QASMProgram: the instruction list and elapsed_time.                      *)
(* An instruction row [label, instr, args, sym]: args are its integer       *)
(* operands and sym its register / label operands, each in order.           *)

Row(label, instr, args, sym) ==
    [label |-> label, instr |-> instr, args |-> args, sym |-> sym]

NewQASMProgram == [instrs |-> <<>>, elapsed_time |-> 0]

emit(q, row) == [q EXCEPT !.instrs = Append(@, row)]

\* int(np.round(time * 1e9)) with time in half ns: round half to even
RoundToNs(time) ==
    LET lo == time \div 2
    IN IF time % 2 = 0 THEN lo
       ELSE IF lo % 2 = 0 THEN lo ELSE lo + 1

to_pulsar_time(time) ==
    LET time_ns == RoundToNs(time)
    IN IF time_ns % GRID_TIME_ns # 0
       THEN [err |-> "ValueError", ns |-> time_ns]
       ELSE [err |-> "none", ns |-> time_ns]

auto_wait_mut_single(q, wait_time) ==
    IF wait_time <= 0 THEN Raise(q, "ValueError")
    ELSE Ok([instrs |-> Append(q.instrs,
                               Row("", "wait", <<wait_time>>, <<>>)),
             elapsed_time |-> q.elapsed_time + wait_time])

\* QASMProgram.auto_wait
auto_wait(q, wait_time) ==
    IF wait_time <= 0 THEN Raise(q, "ValueError")
    ELSE LET split == wait_time > IMMEDIATE_SZ
             n == IF split THEN wait_time \div IMMEDIATE_SZ ELSE 0
             time_left == IF split THEN wait_time % IMMEDIATE_SZ ELSE wait_time
             full == [i \in 1..n |-> Row("", "wait", <<IMMEDIATE_SZ>>, <<>>)]
             rest == IF time_left > 0
                     THEN <<Row("", "wait", <<time_left>>, <<>>)>> ELSE <<>>
         IN Ok([instrs |-> q.instrs \o full \o rest,
                elapsed_time |-> q.elapsed_time + wait_time])

wait_till_start_operation_mut_no_raise(q, op) ==
    LET start == to_pulsar_time(op.timing)
        wait_time == start.ns - q.elapsed_time
    IN IF start.err # "none" THEN Raise(q, start.err)
       ELSE IF wait_time > 0 THEN auto_wait(q, wait_time)
       ELSE Ok(q)

wait_till_start_operation_mut_overlap(q, op) ==
    LET start == to_pulsar_time(op.timing)
        wait_time == start.ns - q.elapsed_time
    IN IF start.err # "none" THEN Raise(q, start.err)
       ELSE IF wait_time > 0 THEN auto_wait(q, wait_time)
       ELSE IF wait_time < -GRID_TIME_ns THEN Raise(q, "ValueError")
       ELSE Ok(q)

wait_till_start_operation(q, op) ==
    LET start == to_pulsar_time(op.timing)
        wait_time == start.ns - q.elapsed_time
    IN IF start.err # "none" THEN Raise(q, start.err)
       ELSE IF wait_time > 0 THEN auto_wait(q, wait_time)
       ELSE IF wait_time < 0 THEN Raise(q, "ValueError")
       ELSE Ok(q)

\* val is the fraction num/den; int(val * immediate_sz // 2)
expand_from_normalised_range(val) ==
    IF (IF val.num < 0 THEN -val.num ELSE val.num) > val.den
    THEN [err |-> "ValueError", imm |-> 0]
    ELSE [err |-> "none", imm |-> (val.num * IMMEDIATE_SZ) \div (2 * val.den)]

update_runtime_settings(q, op) ==
    IF IsNone(op.pulse_settings) THEN Raise(q, "RuntimeError")
    ELSE LET g0 == expand_from_normalised_range(
                       Val(op.pulse_settings).awg_gain_0)
             g1 == expand_from_normalised_range(
                       Val(op.pulse_settings).awg_gain_1)
         IN IF g0.err # "none" THEN Raise(q, g0.err)
            ELSE IF g1.err # "none" THEN Raise(q, g1.err)
            ELSE Ok(emit(q, Row("", "set_awg_gain", <<g0.imm, g1.imm>>, <<>>)))

wait_till_start_then_play(q, pulse, idx0, idx1) ==
    LET w == wait_till_start_operation(q, pulse)
    IN IF w.err # "none" THEN w
       ELSE LET s == update_runtime_settings(w.q, pulse)
            IN IF s.err # "none" THEN s
               ELSE LET p == emit(s.q, Row("", "play",
                                          <<idx0, idx1, GRID_TIME_ns>>, <<>>))
                    IN Ok([p EXCEPT !.elapsed_time = @ + GRID_TIME_ns])

wait_till_start_then_acquire_mut_no_advance(q, acquisition, idx0, idx1) ==
    LET w == wait_till_start_operation(q, acquisition)
    IN IF w.err # "none" THEN w
       ELSE Ok(emit(w.q, Row("", "acquire",
                             <<idx0, idx1, GRID_TIME_ns>>, <<>>)))

wait_till_start_then_acquire(q, acquisition, idx0, idx1) ==
    LET w == wait_till_start_operation(q, acquisition)
    IN IF w.err # "none" THEN w
       ELSE LET p == emit(w.q, Row("", "acquire",
                                  <<idx0, idx1, GRID_TIME_ns>>, <<>>))
            IN Ok([p EXCEPT !.elapsed_time = @ + GRID_TIME_ns])

\* The context manager QASMProgram.loop: gen_start on entry, LOOP on exit
\* (the exit runs in a finally block, also when the body raised).
loop_start_mut_once(q, register, label, reps) ==
    emit(emit(q, Row("", "move", <<1>>, <<register>>)),
         Row(label, "", <<>>, <<>>))

loop_start(q, register, label, reps) ==
    emit(emit(q, Row("", "move", <<reps>>, <<register>>)),
         Row(label, "", <<>>, <<>>))

loop_end(q, register, label) ==
    emit(q, Row("", "loop", <<>>, <<register, label>>))

-----------------------------------------------------------------------------
(* Waveform tables of the sequencer.                                        *)
(* A Python dict is the sequence of its items in insertion order; the name  *)
(* f"{uuid}_I" is the pair <<uuid, "I">>.                                   *)

generate_waveform_names_from_uuid(uuid) == <<<<uuid, "I">>, <<uuid, "Q">>>>

generate_waveform_dict_mut(waveforms_complex) ==
    LET entry(j) ==
            LET idx == (j - 1) \div 2
                item == waveforms_complex[idx + 1]
                names == generate_waveform_names_from_uuid(item.key)
            IN IF j % 2 = 1
               THEN [key |-> names[1], data |-> item.value.real,
                     index |-> idx]
               ELSE [key |-> names[2], data |-> item.value.imag,
                     index |-> idx + Len(waveforms_complex)]
    IN [j \in 1..(2 * Len(waveforms_complex)) |-> entry(j)]

generate_waveform_dict(waveforms_complex) ==
    LET entry(j) ==
            LET idx == (j - 1) \div 2
                item == waveforms_complex[idx + 1]
                names == generate_waveform_names_from_uuid(item.key)
            IN IF j % 2 = 1
               THEN [key |-> names[1], data |-> item.value.real,
                     index |-> 2 * idx]
               ELSE [key |-> names[2], data |-> item.value.imag,
                     index |-> 2 * idx + 1]
    IN [j \in 1..(2 * Len(waveforms_complex)) |-> entry(j)]

\* The loop of _generate_awg_dict over self.pulses: the complex waveforms
\* collected so far, the pulses with their settings, and the error raised.
RECURSIVE awg_loop(_, _, _, _)
awg_loop(ps, i, waveforms_complex, type) ==
    IF i > Len(ps)
    THEN [pulses |-> ps, waveforms_complex |-> waveforms_complex,
          err |-> "none"]
    ELSE LET pulse == ps[i]
             amp == Amplitude(pulse.uuid)
             volt == 1000 * AWG_OUTPUT_VOLT(type)
             abs(x) == IF x < 0 THEN -x ELSE x
             settings == [awg_gain_0 |-> [num |-> amp.amp_i, den |-> volt],
                          awg_gain_1 |-> [num |-> amp.amp_q, den |-> volt]]
             wc == IF HasKey(waveforms_complex, pulse.uuid)
                   THEN waveforms_complex
                   ELSE Append(waveforms_complex,
                               [key |-> pulse.uuid,
                                value |-> WaveformData(pulse.uuid)])
         IN IF abs(amp.amp_i) > volt \/ abs(amp.amp_q) > volt
            THEN [pulses |-> ps, waveforms_complex |-> waveforms_complex,
                  err |-> "ValueError"]
            ELSE awg_loop([ps EXCEPT ![i].pulse_settings = Some(settings)],
                          i + 1, wc, type)

generate_awg_dict(ps, type) ==
    LET r == awg_loop(ps, 1, <<>>, type)
    IN [pulses |-> r.pulses, err |-> r.err,
        dict |-> generate_waveform_dict(r.waveforms_complex)]

RECURSIVE acq_loop(_, _, _)
acq_loop(acqs, i, waveforms_complex) ==
    IF i > Len(acqs) THEN waveforms_complex
    ELSE acq_loop(acqs, i + 1,
                  IF HasKey(waveforms_complex, acqs[i].uuid)
                  THEN waveforms_complex
                  ELSE Append(waveforms_complex,
                              [key |-> acqs[i].uuid,
                               value |-> WaveformData(acqs[i].uuid)]))

generate_acq_dict(acqs) == generate_waveform_dict(acq_loop(acqs, 1, <<>>))

get_indices_from_wf_dict(uuid, table) ==
    LET names == generate_waveform_names_from_uuid(uuid)
    IN IF IsNone(table) THEN [err |-> "TypeError", idx |-> <<0, 0>>]
       ELSE IF ~HasKey(Val(table), names[1]) \/ ~HasKey(Val(table), names[2])
       THEN [err |-> "KeyError", idx |-> <<0, 0>>]
       ELSE [err |-> "none",
             idx |-> <<Lookup(Val(table), names[1]).index,
                       Lookup(Val(table), names[2]).index>>]

-----------------------------------------------------------------------------
(* Pulsar_sequencer_base.compile and generate_qasm_program *)

\* _calculate_total_play_time: the latest end of an operation of the
\* schedule; other is the latest end among the other sequencers' operations.
RECURSIVE calculate_total_play_time(_, _)
calculate_total_play_time(ops, other) ==
    IF ops = <<>> THEN other
    ELSE calculate_total_play_time(
             Tail(ops), Max(other, Head(ops).timing + Ns(Head(ops).duration)))

has_data(ps, acqs) == Len(acqs) > 0 \/ Len(ps) > 0

\* key=lambda p: (p.timing, p.is_acquisition), False < True
KeyLess(a, b) ==
    \/ a.timing < b.timing
    \/ a.timing = b.timing /\ ~a.is_acquisition /\ b.is_acquisition

\* sorted() is stable: an element goes after the elements not greater than it
RECURSIVE InsertSorted(_, _)
InsertSorted(sorted, x) ==
    IF sorted = <<>> THEN <<x>>
    ELSE IF KeyLess(x, Head(sorted)) THEN <<x>> \o sorted
    ELSE <<Head(sorted)>> \o InsertSorted(Tail(sorted), x)

SortOps_mut_unsorted(ops) == ops

RECURSIVE SortOps(_)
SortOps(ops) ==
    IF ops = <<>> THEN <<>>
    ELSE InsertSorted(SortOps(SubSeq(ops, 1, Len(ops) - 1)), ops[Len(ops)])

loop_label == "start"
loop_register == "R0"

\* compile returns None for a sequencer without data
CompileSkip ==
    /\ pc = "start"
    /\ ~has_data(pulses, acquisitions)
    /\ pc' = "skipped"
    /\ UNCHANGED <<pulses, acquisitions, total_play_time, repetitions,
                   seq_type, awg_dict, acq_dict, qasm, op_queue, operation,
                   err>>
    /\ UNCHANGED not_qasm_vars

\* compile up to the entry of the loop context of generate_qasm_program
CompileBegin ==
    /\ pc = "start"
    /\ has_data(pulses, acquisitions)
    /\ LET a == generate_awg_dict(pulses, seq_type)
           header == emit(emit(NewQASMProgram,
                               Row("", "wait_sync", <<GRID_TIME_ns>>, <<>>)),
                          Row("", "set_mrk", <<1>>, <<>>))
       IN /\ pulses' = a.pulses
          /\ IF a.err # "none"
             THEN /\ pc' = "error"
                  /\ err' = a.err
                  /\ UNCHANGED <<awg_dict, acq_dict, qasm, op_queue>>
             ELSE /\ awg_dict' = Some(a.dict)
                  /\ acq_dict' = IF Len(acquisitions) > 0
                                 THEN Some(generate_acq_dict(acquisitions))
                                 ELSE None
                  /\ qasm' = loop_start(header, loop_register, loop_label,
                                        repetitions)
                  /\ op_queue' = SortOps(a.pulses \o acquisitions)
                  /\ pc' = "body"
                  /\ err' = err
    /\ UNCHANGED <<acquisitions, total_play_time, repetitions, seq_type,
                   operation>>
    /\ UNCHANGED not_qasm_vars

\* one iteration of the while loop over op_queue
BodyStep ==
    /\ pc = "body"
    /\ op_queue # <<>>
    /\ LET op == Head(op_queue)
           idx == get_indices_from_wf_dict(
                      op.uuid, IF op.is_acquisition THEN acq_dict ELSE awg_dict)
           r == IF idx.err # "none" THEN Raise(qasm, idx.err)
                ELSE IF op.is_acquisition
                THEN wait_till_start_then_acquire(qasm, op, idx.idx[1],
                                                  idx.idx[2])
                ELSE wait_till_start_then_play(qasm, op, idx.idx[1],
                                               idx.idx[2])
       IN /\ operation' = Some(op)
          /\ op_queue' = Tail(op_queue)
          /\ IF r.err # "none"
             THEN /\ qasm' = loop_end(r.q, loop_register, loop_label)
                  /\ pc' = "error"
                  /\ err' = r.err
             ELSE /\ qasm' = r.q
                  /\ pc' = "body"
                  /\ err' = err
    /\ UNCHANGED <<pulses, acquisitions, total_play_time, repetitions,
                   seq_type, awg_dict, acq_dict>>
    /\ UNCHANGED not_qasm_vars

\* the trailing wait, the exit of the loop context and the program footer
Tail_ ==
    /\ pc = "body"
    /\ op_queue = <<>>
    /\ LET end_time == to_pulsar_time(total_play_time)
           wait_time == end_time.ns - qasm.elapsed_time
           w == auto_wait(qasm, wait_time)
           footer(q) ==
               emit(emit(emit(q, Row("", "set_mrk", <<0>>, <<>>)),
                         Row("", "upd_param", <<GRID_TIME_ns>>, <<>>)),
                    Row("", "stop", <<>>, <<>>))
       IN IF end_time.err # "none"
          THEN /\ qasm' = loop_end(qasm, loop_register, loop_label)
               /\ pc' = "error"
               /\ err' = end_time.err
          ELSE IF wait_time <= 0
          THEN /\ qasm' = loop_end(qasm, loop_register, loop_label)
               /\ pc' = "error"
               /\ err' = "RuntimeError"
          ELSE /\ qasm' = footer(loop_end(w.q, loop_register, loop_label))
               /\ pc' = "done"
               /\ err' = err
    /\ UNCHANGED <<pulses, acquisitions, total_play_time, repetitions,
                   seq_type, awg_dict, acq_dict, op_queue, operation>>
    /\ UNCHANGED not_qasm_vars

InitQasm ==
    /\ seq_type \in {"QCM", "QRM"}
    /\ pulses \in SeqsUpTo(PulseOps, MaxOps)
    /\ acquisitions \in
           IF seq_type = "QCM" THEN {<<>>}
           ELSE SeqsUpTo(AcqOps, MaxOps - Len(pulses))
    /\ \E other \in OtherEnds :
           total_play_time =
               calculate_total_play_time(pulses \o acquisitions, other)
    /\ repetitions \in RepetitionCounts
    /\ awg_dict = None
    /\ acq_dict = None
    /\ qasm = NewQASMProgram
    /\ op_queue = <<>>
    /\ operation = None
    /\ pc = "start"
    /\ err = "none"

Init == InitQasm /\ IdleFreq /\ IdleAssign /\ IdleMap /\ IdleWf
    /\ IdleAmp
    /\ IdleDist
    /\ IdleProg
    /\ IdleDet
    /\ IdlePb

Next == CompileSkip \/ CompileBegin \/ BodyStep \/ Tail_

Spec == Init /\ [][Next]_vars

-----------------------------------------------------------------------------
(* Properties of the emitter *)

IsTimed(row) == row.instr \in {"wait", "play", "acquire"}

\* Duration operand of a wait (its only operand) or of a play / acquire
\* (its last operand)
DurationOperand(row) == row.args[Len(row.args)]

\* Time that one iteration of the loop takes: the rows between the label
\* and the loop instruction
BodyLength(instrs) ==
    LET first == CHOOSE i \in 1..Len(instrs) : instrs[i].label = loop_label
        last == CHOOSE i \in 1..Len(instrs) : instrs[i].instr = "loop"
        body == SubSeq(instrs, first + 1, last - 1)
    IN SumSeq([i \in 1..Len(body) |->
                  IF IsTimed(body[i]) THEN DurationOperand(body[i]) ELSE 0])

\* Every operation starts at a whole number of ns on the 4 ns grid
OnGrid(time) == time % Ns(GRID_TIME_ns) = 0

GridAlignedSchedule ==
    /\ \A i \in 1..Len(pulses) : OnGrid(pulses[i].timing)
    /\ \A i \in 1..Len(acquisitions) : OnGrid(acquisitions[i].timing)
    /\ OnGrid(total_play_time)

\* No two operations of the sequencer start less than one instruction apart
NoTimingConflict ==
    LET ops == pulses \o acquisitions
    IN \A i, j \in 1..Len(ops) :
           i # j => \/ ops[i].timing >= ops[j].timing + Ns(GRID_TIME_ns)
                    \/ ops[j].timing >= ops[i].timing + Ns(GRID_TIME_ns)

Finished == pc \in {"done", "error"}

\* C1: for every grid-aligned, conflict-free schedule, program generation of
\* a sequencer with data succeeds and one iteration of the emitted body
\* lasts exactly total_play_time.
C1_CycleEquality ==
    (Finished /\ GridAlignedSchedule /\ NoTimingConflict)
        => /\ pc = "done"
           /\ BodyLength(qasm.instrs) = RoundToNs(total_play_time)

\* C2: for a grid-aligned schedule, every wait, play and acquire emitted has
\* a duration operand that is a positive multiple of 4 ns, and elapsed_time
\* is a multiple of 4 after every step.
C2_GridOperands ==
    GridAlignedSchedule
        => /\ \A i \in 1..Len(qasm.instrs) :
                  IsTimed(qasm.instrs[i])
                      => /\ DurationOperand(qasm.instrs[i]) > 0
                         /\ DurationOperand(qasm.instrs[i]) % GRID_TIME_ns = 0
           /\ qasm.elapsed_time % GRID_TIME_ns = 0

\* The rows that q2 holds after those of q1
Emitted(q1, q2) == SubSeq(q2.instrs, Len(q1.instrs) + 1, Len(q2.instrs))

IsPrefix(s, t) == Len(s) <= Len(t) /\ SubSeq(t, 1, Len(s)) = s

-----------------------------------------------------------------------------
(* Frequency resolution.  Frequencies are integers (MHz).                   *)

NumOutputs == 2

Outputs == 1..NumOutputs

LoNames == {"lo0", "lo1"}
ClockFreqs == {0, 100}
LoFreqs == {80, 90}
IntermFreqs == {10, 20}
DownconverterFreqs == {None, Some(-50), Some(0), Some(50), Some(150)}

Optional(S) == {None} \cup {Some(v) : v \in S}

\* An output of a device with its single port-clock: the LO it uses, the
\* "lo_freq" and "interm_freq" entries (null or a number), and whether the
\* schedule has pulses or acquisitions for the port-clock.
OutputCfgs ==
    [lo_name : LoNames, lo_freq : Optional(LoFreqs),
     interm_freq : Optional(IntermFreqs), with_data : BOOLEAN]

LocalOscillator_assign_frequency_mut(lo_freq, freq) == Ok(freq)

\* LocalOscillator.assign_frequency: q is the new self._lo_freq
LocalOscillator_assign_frequency(lo_freq, freq) ==
    IF lo_freq # None /\ freq # lo_freq
    THEN Raise(lo_freq, "ValueError")
    ELSE Ok(freq)

\* Pulsar_sequencer_base.assign_frequency: q is the new modulation_freq
sequencer_assign_frequency(stored, freq) ==
    IF stored # freq /\ stored # None
    THEN Raise(stored, "ValueError")
    ELSE Ok(freq)

Frequencies(clock, lo, interm, e) ==
    [f_clock |-> clock, f_LO |-> lo, f_IF |-> interm, err |-> e]

determine_clock_lo_interm_freqs_mut(clock_freq, lo_freq, interm_freq, downconverter_freq, mix_lo) ==
    Frequencies(Some(clock_freq),
                IF interm_freq # None THEN Some(clock_freq + Val(interm_freq))
                ELSE lo_freq,
                IF lo_freq # None THEN Some(clock_freq - Val(lo_freq))
                ELSE interm_freq,
                "none")

determine_clock_lo_interm_freqs_mut_unchecked(clock_freq, lo_freq, interm_freq, downconverter_freq, mix_lo) ==
    LET clock == IF downconverter_freq # None
                 THEN Val(downconverter_freq) - clock_freq
                 ELSE clock_freq
    IN IF ~mix_lo THEN Frequencies(Some(clock), Some(clock), None, "none")
       ELSE Frequencies(
                Some(clock),
                IF interm_freq # None THEN Some(clock - Val(interm_freq))
                ELSE lo_freq,
                IF lo_freq # None THEN Some(clock - Val(lo_freq))
                ELSE interm_freq,
                "none")

determine_clock_lo_interm_freqs(clock_freq, lo_freq, interm_freq, downconverter_freq, mix_lo) ==
    LET d == Val(downconverter_freq)
        bad == downconverter_freq # None /\ (d < 0 \/ d < clock_freq)
        clock == IF downconverter_freq # None THEN d - clock_freq
                 ELSE clock_freq
    IN IF bad
       THEN Frequencies(Some(clock_freq), lo_freq, interm_freq, "ValueError")
       ELSE IF ~mix_lo THEN Frequencies(Some(clock), Some(clock), None, "none")
       ELSE Frequencies(
                Some(clock),
                IF interm_freq # None THEN Some(clock - Val(interm_freq))
                ELSE lo_freq,
                IF lo_freq # None THEN Some(clock - Val(lo_freq))
                ELSE interm_freq,
                "none")

\* pulsar_backend._extract_interm_freq
extract_interm_freq(lo_freq, interm_freq, clock_freq) ==
    IF lo_freq = None /\ interm_freq = None
    THEN Frequencies(Some(clock_freq), lo_freq, interm_freq,
                     "ValueError: frequency under constrained")
    ELSE IF lo_freq = None /\ interm_freq # None
    THEN Frequencies(Some(clock_freq),
                     Some(clock_freq - Val(interm_freq)), interm_freq, "none")
    ELSE IF interm_freq = None /\ lo_freq # None
    THEN Frequencies(Some(clock_freq), lo_freq,
                     Some(clock_freq - Val(lo_freq)), "none")
    ELSE Frequencies(Some(clock_freq), lo_freq, interm_freq,
                     "ValueError: frequency over constrained")

\* generate_ext_local_oscillators: one LocalOscillator per lo_name, with the
\* lo_freq of each output assigned to it
RECURSIVE generate_ext_local_oscillators(_, _, _)
generate_ext_local_oscillators(hw, i, lo_dict) ==
    IF i > Len(hw) THEN Ok(lo_dict)
    ELSE LET name == hw[i].lo_name
             d == IF HasKey(lo_dict, name) THEN lo_dict
                  ELSE Append(lo_dict, [key |-> name, value |-> None])
             a == LocalOscillator_assign_frequency(Lookup(d, name).value,
                                                   hw[i].lo_freq)
         IN IF a.err # "none" THEN Raise(d, a.err)
            ELSE generate_ext_local_oscillators(hw, i + 1,
                                                SetKey(d, name, a.q))

\* _assign_frequencies: the loop over the outputs that name an LO.  st holds
\* the LO compilers, the sequencers' modulation frequencies, los_used and
\* the exception raised.
RECURSIVE assign_loop(_, _, _, _)
assign_loop(hw, res, i, st) ==
    IF i > Len(hw) \/ st.err # "none" THEN st
    ELSE LET o == hw[i]
             lo_freq == o.lo_freq
             interm_freq == o.interm_freq
             in_resources == res[i] # None
             cl_freq == Val(res[i])
             used == IF o.with_data THEN st.used \cup {o.lo_name} ELSE st.used
             lo_stored == Lookup(st.los, o.lo_name).value
         IN IF lo_freq = None
            THEN IF ~in_resources THEN assign_loop(hw, res, i + 1, st)
                 ELSE LET m == sequencer_assign_frequency(st.mods[i],
                                                          interm_freq)
                          l == LocalOscillator_assign_frequency(
                                   lo_stored, Some(cl_freq - Val(interm_freq)))
                      IN IF m.err # "none"
                         THEN [st EXCEPT !.used = used, !.err = m.err]
                         ELSE IF interm_freq = None
                         THEN [st EXCEPT !.used = used, !.mods[i] = m.q,
                                         !.err = "TypeError"]
                         ELSE IF l.err # "none"
                         THEN [st EXCEPT !.used = used, !.mods[i] = m.q,
                                         !.err = l.err]
                         ELSE assign_loop(hw, res, i + 1,
                                  [st EXCEPT !.used = used, !.mods[i] = m.q,
                                             !.los = SetKey(@, o.lo_name, l.q)])
            ELSE LET l == LocalOscillator_assign_frequency(lo_stored, lo_freq)
                     m == sequencer_assign_frequency(
                              st.mods[i], Some(cl_freq - Val(lo_freq)))
                 IN IF l.err # "none" THEN [st EXCEPT !.err = l.err]
                    ELSE IF ~in_resources
                    THEN assign_loop(hw, res, i + 1,
                             [st EXCEPT !.used = used,
                                        !.los = SetKey(@, o.lo_name, l.q)])
                    ELSE IF m.err # "none"
                    THEN [st EXCEPT !.used = used, !.err = m.err,
                                    !.los = SetKey(@, o.lo_name, l.q)]
                    ELSE assign_loop(hw, res, i + 1,
                             [st EXCEPT !.used = used, !.mods[i] = m.q,
                                        !.los = SetKey(@, o.lo_name, l.q)])

assign_frequencies(hw, res, los, mods) ==
    LET st == assign_loop(hw, res, 1,
                          [los |-> los, mods |-> mods, used |-> {},
                           err |-> "none"])
    IN IF st.err # "none" THEN st
       ELSE [st EXCEPT !.los = SelectSeq(@, LAMBDA e : e.key \in st.used)]

\* hardware_compile: the LO compilers are made from the mapping
GenerateExtLocalOscillators ==
    /\ fpc = "start"
    /\ ~freqs.called /\ ~extracted.called
    /\ LET r == generate_ext_local_oscillators(hw_mapping, 1, <<>>)
       IN /\ lo_compilers' = r.q
          /\ ferr' = r.err
          /\ fpc' = IF r.err = "none" THEN "los" ELSE "error"
    /\ UNCHANGED <<hw_mapping, resources, modulation_freq, freqs, extracted>>
    /\ UNCHANGED not_freq_vars

\* hardware_compile: _assign_frequencies
AssignFrequencies ==
    /\ fpc = "los"
    /\ LET st == assign_frequencies(hw_mapping, resources, lo_compilers,
                                    modulation_freq)
       IN /\ lo_compilers' = st.los
          /\ modulation_freq' = st.mods
          /\ ferr' = st.err
          /\ fpc' = IF st.err = "none" THEN "assigned" ELSE "error"
    /\ UNCHANGED <<hw_mapping, resources, freqs, extracted>>
    /\ UNCHANGED not_freq_vars

\* A call of helpers.determine_clock_lo_interm_freqs for an output
DetermineClockLoIntermFreqs ==
    /\ fpc = "start"
    /\ ~freqs.called /\ ~extracted.called
    /\ \E i \in Outputs, d \in DownconverterFreqs, mix_lo \in BOOLEAN :
           /\ resources[i] # None
           /\ LET o == hw_mapping[i]
                  f == determine_clock_lo_interm_freqs(
                           Val(resources[i]), o.lo_freq, o.interm_freq, d,
                           mix_lo)
              IN freqs' =
                     [called |-> TRUE, clock_freq |-> Val(resources[i]),
                      lo_freq |-> o.lo_freq, interm_freq |-> o.interm_freq,
                      downconverter_freq |-> d, mix_lo |-> mix_lo,
                      f_clock |-> f.f_clock, f_LO |-> f.f_LO,
                      f_IF |-> f.f_IF, err |-> f.err]
    /\ UNCHANGED <<hw_mapping, resources, lo_compilers, modulation_freq, fpc,
                   ferr, extracted>>
    /\ UNCHANGED not_freq_vars

\* A call of pulsar_backend._extract_interm_freq for an output
ExtractIntermFreq ==
    /\ fpc = "start"
    /\ ~freqs.called /\ ~extracted.called
    /\ \E i \in Outputs :
           /\ resources[i] # None
           /\ LET o == hw_mapping[i]
                  f == extract_interm_freq(o.lo_freq, o.interm_freq,
                                           Val(resources[i]))
              IN extracted' =
                     [called |-> TRUE, clock_freq |-> Val(resources[i]),
                      lo_freq |-> o.lo_freq, interm_freq |-> o.interm_freq,
                      downconverter_freq |-> None, mix_lo |-> TRUE,
                      f_clock |-> f.f_clock, f_LO |-> f.f_LO,
                      f_IF |-> f.f_IF, err |-> f.err]
    /\ UNCHANGED <<hw_mapping, resources, lo_compilers, modulation_freq, fpc,
                   ferr, freqs>>
    /\ UNCHANGED not_freq_vars

\* The sequencers are constructed without a modulation frequency
\* (_construct_sequencers passes None when the mapping has "interm_freq")
StartFreq ==
    /\ hw_mapping \in [Outputs -> OutputCfgs]
    /\ resources \in [Outputs -> Optional(ClockFreqs)]
    /\ lo_compilers = <<>>
    /\ modulation_freq = [i \in Outputs |-> None]
    /\ fpc = "start"
    /\ ferr = "none"
    /\ freqs = NoFrequencies
    /\ extracted = NoFrequencies

NextFreq ==
    \/ GenerateExtLocalOscillators
    \/ AssignFrequencies
    \/ DetermineClockLoIntermFreqs
    \/ ExtractIntermFreq

InitFreq == StartFreq /\ IdleQasm /\ IdleAssign /\ IdleMap /\ IdleWf
    /\ IdleAmp
    /\ IdleDist
    /\ IdleProg
    /\ IdleDet
    /\ IdlePb

SpecFreq == InitFreq /\ [][NextFreq]_vars

-----------------------------------------------------------------------------
(* Properties of the frequency resolution *)

BothGiven(lo_freq, interm_freq) == lo_freq # None /\ interm_freq # None

NeitherGiven(lo_freq, interm_freq) == lo_freq = None /\ interm_freq = None

OneGiven(lo_freq, interm_freq) == (lo_freq = None) # (interm_freq = None)

\* A call returned LO and IF that add up to the clock it returned, with the
\* frequency that was given unchanged
KeepsGivenAndAddsUp(f) ==
    /\ f.f_LO # None /\ f.f_IF # None /\ f.f_clock # None
    /\ f.lo_freq # None => f.f_LO = f.lo_freq
    /\ f.interm_freq # None => f.f_IF = f.interm_freq
    /\ Val(f.f_clock) = Val(f.f_LO) + Val(f.f_IF)
    /\ f.lo_freq = None => Val(f.f_LO) = Val(f.f_clock) - Val(f.interm_freq)
    /\ f.interm_freq = None => Val(f.f_IF) = Val(f.f_clock) - Val(f.lo_freq)

\* C3: with mixing enabled and exactly one of lo_freq / interm_freq given,
\* frequency resolution keeps the given value and derives the other so that
\* clock = LO + IF; after _assign_frequencies the LO compiler carries the LO
\* and the sequencer of the output the IF as its modulation frequency.
C3_OneGivenDerivesOther ==
    /\ (freqs.called /\ freqs.mix_lo
            /\ OneGiven(freqs.lo_freq, freqs.interm_freq))
        => /\ freqs.downconverter_freq = None
                  => freqs.err = "none" /\ freqs.f_clock = Some(freqs.clock_freq)
           /\ freqs.err = "none" => KeepsGivenAndAddsUp(freqs)
    /\ (extracted.called /\ OneGiven(extracted.lo_freq, extracted.interm_freq))
        => /\ extracted.err = "none"
           /\ extracted.f_clock = Some(extracted.clock_freq)
           /\ KeepsGivenAndAddsUp(extracted)
    /\ fpc = "assigned"
        => \A i \in Outputs :
               LET o == hw_mapping[i]
                   clock == Val(resources[i])
                   interm == IF o.interm_freq # None THEN Val(o.interm_freq)
                             ELSE clock - Val(o.lo_freq)
                   lo == IF o.lo_freq # None THEN Val(o.lo_freq)
                         ELSE clock - Val(o.interm_freq)
               IN (OneGiven(o.lo_freq, o.interm_freq) /\ resources[i] # None)
                      => /\ clock = lo + interm
                         /\ modulation_freq[i] = Some(interm)
                         /\ HasKey(lo_compilers, o.lo_name)
                                => Lookup(lo_compilers, o.lo_name).value
                                       = Some(lo)

\* _assign_frequencies returned for a mapping with an output that gives only
\* the IF and an output that gives only the LO frequency, both with data.
C3_Witness ==
    /\ fpc = "assigned"
    /\ \E i, j \in Outputs :
           /\ hw_mapping[i].lo_freq = None /\ hw_mapping[i].interm_freq # None
           /\ hw_mapping[j].lo_freq # None /\ hw_mapping[j].interm_freq = None
           /\ resources[i] # None /\ resources[j] # None
           /\ HasKey(lo_compilers, hw_mapping[i].lo_name)
           /\ HasKey(lo_compilers, hw_mapping[j].lo_name)
           /\ modulation_freq[i] # None /\ modulation_freq[j] # None

\* C5: with mixing enabled, lo_freq and interm_freq both given and
\* clock_freq different from lo_freq + interm_freq, frequency resolution
\* raises the over-constrained error and returns or assigns no LO / IF.
C5_OverConstrainedRaises ==
    /\ (freqs.called /\ freqs.mix_lo /\ freqs.downconverter_freq = None
            /\ BothGiven(freqs.lo_freq, freqs.interm_freq)
            /\ freqs.clock_freq
                   # Val(freqs.lo_freq) + Val(freqs.interm_freq))
        => freqs.err = "ValueError: frequency over constrained"
    /\ (extracted.called
            /\ BothGiven(extracted.lo_freq, extracted.interm_freq)
            /\ extracted.clock_freq
                   # Val(extracted.lo_freq) + Val(extracted.interm_freq))
        => extracted.err = "ValueError: frequency over constrained"
    /\ fpc = "assigned"
        => \A i \in Outputs :
               ~ /\ BothGiven(hw_mapping[i].lo_freq, hw_mapping[i].interm_freq)
                 /\ resources[i] # None
                 /\ Val(resources[i]) # Val(hw_mapping[i].lo_freq)
                                          + Val(hw_mapping[i].interm_freq)

\* C6: with mixing enabled and neither lo_freq nor interm_freq given,
\* frequency resolution raises the under-constrained error and does not
\* return frequencies with LO or IF undefined.
C6_UnderConstrainedRaises ==
    /\ (freqs.called /\ freqs.mix_lo /\ freqs.downconverter_freq = None
            /\ NeitherGiven(freqs.lo_freq, freqs.interm_freq))
        => freqs.err = "ValueError: frequency under constrained"
    /\ (extracted.called
            /\ NeitherGiven(extracted.lo_freq, extracted.interm_freq))
        => extracted.err = "ValueError: frequency under constrained"

-----------------------------------------------------------------------------
(* assign_frequency called any number of times on one LocalOscillator and   *)
(* on one sequencer                                                         *)

MaxCalls == 3

LOAssignFrequency ==
    /\ n_calls < MaxCalls
    /\ \E freq \in Optional(LoFreqs) :
           LET r == LocalOscillator_assign_frequency(lo_obj, freq)
           IN /\ lo_obj' = r.q
              /\ last_call' = [target |-> "lo", freq |-> freq, err |-> r.err]
    /\ n_calls' = n_calls + 1
    /\ UNCHANGED seq_obj
    /\ UNCHANGED not_assign_vars

SeqAssignFrequency ==
    /\ n_calls < MaxCalls
    /\ \E freq \in Optional(IntermFreqs) :
           LET r == sequencer_assign_frequency(seq_obj, freq)
           IN /\ seq_obj' = r.q
              /\ last_call' = [target |-> "seq", freq |-> freq, err |-> r.err]
    /\ n_calls' = n_calls + 1
    /\ UNCHANGED lo_obj
    /\ UNCHANGED not_assign_vars

\* Both constructors take the frequency, None by default
StartAssign ==
    /\ lo_obj \in Optional(LoFreqs)
    /\ seq_obj \in Optional(IntermFreqs)
    /\ last_call = NoCall
    /\ n_calls = 0

NextAssign == LOAssignFrequency \/ SeqAssignFrequency

InitAssign == StartAssign /\ IdleQasm /\ IdleFreq /\ IdleMap /\ IdleWf
    /\ IdleAmp
    /\ IdleDist
    /\ IdleProg
    /\ IdleDet
    /\ IdlePb

SpecAssign == InitAssign /\ [][NextAssign]_vars

\* What a call of assign_frequency(freq) may do to the frequency stored
AssignsOnce(stored, stored_after, call) ==
    /\ stored # None => stored_after = stored
    /\ (stored # None /\ call.freq = stored) => call.err = "none"
    /\ (stored # None /\ call.freq # stored) => call.err = "ValueError"
    /\ stored = None => call.err = "none" /\ stored_after = call.freq

\* C9: over any sequence of assign_frequency calls on a LocalOscillator or a
\* sequencer, a stored frequency never changes again: assigning the stored
\* value succeeds and changes nothing, assigning another value raises
\* ValueError and leaves the stored frequency.
C9_FrequencyAssignedOnce ==
    [][/\ lo_obj # None => lo_obj' = lo_obj
       /\ seq_obj # None => seq_obj' = seq_obj
       /\ (n_calls' # n_calls /\ last_call'.target = "lo")
              => AssignsOnce(lo_obj, lo_obj', last_call')
       /\ (n_calls' # n_calls /\ last_call'.target = "seq")
              => AssignsOnce(seq_obj, seq_obj', last_call')]_vars

\* A LocalOscillator that holds a frequency refused another one, after a
\* sequencer refused one as well or accepted its own again.
C9_Witness ==
    /\ n_calls >= 2
    /\ last_call.target = "lo"
    /\ last_call.err = "ValueError"
    /\ lo_obj # None
    /\ last_call.freq # lo_obj
    /\ seq_obj # None

-----------------------------------------------------------------------------
(* The port-clock index.  The mapping is the sequence of its sequencer      *)
(* slots: slot s is output (s - 1) % 2 of device (s - 1) \div 2.            *)

NumDevices == 2
OutputsPerDevice == 2

Slots == 1..(NumDevices * OutputsPerDevice)

Ports == {"q0:mw", "q1:mw"}
Clocks == {"q0.01", "q1.01"}

DeviceOf(s) == (s - 1) \div OutputsPerDevice
OutputOf(s) == (s - 1) % OutputsPerDevice

\* "port" is null or a name; "clock" is a name, or None when the key is
\* missing
SlotCfgs == [port : Optional(Ports), clock : Optional(Clocks)]

\* find_all_port_clock_combinations over the slots of a device, from slot s
RECURSIVE find_all_port_clock_combinations(_, _, _, _)
find_all_port_clock_combinations(hw, s, last, port_clocks) ==
    IF s > last THEN Ok(port_clocks)
    ELSE IF hw[s].port = None
    THEN find_all_port_clock_combinations(hw, s + 1, last, port_clocks)
    ELSE IF hw[s].clock = None THEN Raise(port_clocks, "AttributeError")
    ELSE find_all_port_clock_combinations(
             hw, s + 1, last,
             Append(port_clocks, <<Val(hw[s].port), Val(hw[s].clock)>>))

RECURSIVE SetKeys(_, _, _)
SetKeys(dict, keys, value) ==
    IF keys = <<>> THEN dict
    ELSE SetKeys(SetKey(dict, Head(keys), value), Tail(keys), value)

RECURSIVE generate_port_clock_to_device_map(_, _, _)
generate_port_clock_to_device_map(hw, device, map) ==
    IF device >= NumDevices THEN Ok(map)
    ELSE LET first == device * OutputsPerDevice + 1
             pcs == find_all_port_clock_combinations(
                        hw, first, first + OutputsPerDevice - 1, <<>>)
         IN IF pcs.err # "none" THEN Raise(map, pcs.err)
            ELSE generate_port_clock_to_device_map(
                     hw, device + 1, SetKeys(map, pcs.q, device))

\* Pulsar_base._generate_portclock_to_seq_map of one device, from slot s
RECURSIVE generate_portclock_to_seq_map(_, _, _, _)
generate_portclock_to_seq_map(hw, s, last, map) ==
    IF s > last THEN Ok(map)
    ELSE LET pcs == find_all_port_clock_combinations(hw, s, s, <<>>)
         IN IF pcs.err # "none" THEN Raise(map, pcs.err)
            ELSE IF Len(pcs.q) > 1 THEN Raise(map, "NotImplementedError")
            ELSE generate_portclock_to_seq_map(
                     hw, s + 1, last,
                     IF Len(pcs.q) > 0
                     THEN SetKey(map, pcs.q[1], OutputOf(s))
                     ELSE map)

\* hardware_compile: portclock_map = generate_port_clock_to_device_map(...)
GeneratePortClockToDeviceMap ==
    /\ mpc = "start"
    /\ LET r == generate_port_clock_to_device_map(hardware_map, 0, <<>>)
       IN /\ merr' = r.err
          /\ portclock_map' = IF r.err = "none" THEN r.q ELSE portclock_map
          /\ mpc' = IF r.err = "none" THEN "mapped" ELSE "error"
    /\ UNCHANGED <<hardware_map, portclock_to_seq>>
    /\ UNCHANGED not_map_vars

\* hardware_compile: _construct_compiler_objects; the constructor of each
\* device compiler builds its portclock to sequencer map
ConstructCompilerObjects ==
    /\ mpc = "mapped"
    /\ LET maps == [d \in 1..NumDevices |->
                       generate_portclock_to_seq_map(
                           hardware_map, (d - 1) * OutputsPerDevice + 1,
                           d * OutputsPerDevice, <<>>)]
           failed == \E d \in 1..NumDevices : maps[d].err # "none"
       IN /\ portclock_to_seq' = [d \in 1..NumDevices |-> maps[d].q]
          /\ merr' = IF failed
                     THEN maps[CHOOSE d \in 1..NumDevices :
                                  /\ maps[d].err # "none"
                                  /\ \A e \in 1..(d - 1) : maps[e].err = "none"
                              ].err
                     ELSE "none"
          /\ mpc' = IF failed THEN "error" ELSE "constructed"
    /\ UNCHANGED <<hardware_map, portclock_map>>
    /\ UNCHANGED not_map_vars

StartMap ==
    /\ hardware_map \in [Slots -> SlotCfgs]
    /\ portclock_map = <<>>
    /\ portclock_to_seq = <<>>
    /\ mpc = "start"
    /\ merr = "none"

NextMap == GeneratePortClockToDeviceMap \/ ConstructCompilerObjects

InitMap == StartMap /\ IdleQasm /\ IdleFreq /\ IdleAssign /\ IdleWf
    /\ IdleAmp
    /\ IdleDist
    /\ IdleProg
    /\ IdleDet
    /\ IdlePb

SpecMap == InitMap /\ [][NextMap]_vars

\* The same non-null (port, clock) is given for two sequencer slots
DuplicatePortclock ==
    \E s, t \in Slots :
        /\ s # t
        /\ hardware_map[s].port # None /\ hardware_map[s].clock # None
        /\ hardware_map[s].port = hardware_map[t].port
        /\ hardware_map[s].clock = hardware_map[t].clock

\* C4: a mapping that gives the same non-null (port, clock) for two sequencer
\* slots is refused with an error and no index is produced, so that every
\* index produced maps each (port, clock) to one slot only.
C4_DuplicatePortclockRaises ==
    DuplicatePortclock => /\ mpc \in {"start", "error"}
                          /\ portclock_map = <<>>

-----------------------------------------------------------------------------
(* The waveform tables of one sequencer: the table that _generate_awg_dict  *)
(* builds from all pulses at once, and the table that the pulse strategies  *)
(* fill one pulse at a time.                                                *)

MaxWfPulses == 3

WfUuids == {"p4", "p20", "r20", "p4e"}

\* wf_data.round(decimals=12)
Round12(sample) == <<sample[1], 0>>

\* hash() of bytes is salted with the seed of the interpreter: the pair of
\* the seed and the rounded samples stands for str(hash(...))
generate_uuid_from_wf_data(wf_data) ==
    <<hash_seed, [i \in 1..Len(wf_data) |-> Round12(wf_data[i])]>>

add_to_wf_dict_if_unique_mut(table, waveform) ==
    LET uuid == generate_uuid_from_wf_data(waveform)
        kept == SelectSeq(table, LAMBDA e : e.key # uuid)
    IN [wf_dict |-> Append(kept, [key |-> uuid, data |-> waveform,
                                  index |-> Len(table)]),
        uuid |-> uuid, index |-> Len(table)]

add_to_wf_dict_if_unique(table, waveform) ==
    LET uuid == generate_uuid_from_wf_data(waveform)
    IN IF HasKey(table, uuid)
       THEN [wf_dict |-> table, uuid |-> uuid,
             index |-> Lookup(table, uuid).index]
       ELSE [wf_dict |-> Append(table, [key |-> uuid, data |-> waveform,
                                        index |-> Len(table)]),
             uuid |-> uuid, index |-> Len(table)]

\* np.any(np.iscomplex(waveform_data))
IsComplex(data) == \E i \in 1..Len(data.imag) : data.imag[i] # <<0, 0>>

\* GenericPulseStrategy.generate_data
generate_data(table, uuid, mode) ==
    LET waveform_data == WaveformData(uuid)
        r == add_to_wf_dict_if_unique(table, waveform_data.real)
        i == add_to_wf_dict_if_unique(r.wf_dict, waveform_data.imag)
    IN [wf_dict |-> i.wf_dict,
        err |-> IF IsComplex(waveform_data) /\ mode # "complex"
                THEN "ValueError" ELSE "none",
        strategy |-> [uuid |-> uuid, waveform_index0 |-> r.index,
                      waveform_index1 |-> i.index]]

\* InstrumentCompiler.add_pulse
AddPulse ==
    /\ Len(seq_pulses) < MaxWfPulses
    /\ werr = "none"
    /\ \E uuid \in WfUuids :
           seq_pulses' = Append(seq_pulses, OpInfo(uuid, Ns(0), FALSE))
    /\ UNCHANGED <<output_mode, old_awg_dict, old_plays, wf_dict, strategies,
                   werr>>
    /\ UNCHANGED not_wf_vars

\* _generate_awg_dict over the pulses added so far, and the indices that
\* generate_qasm_program looks up for the play of each pulse
GenerateAwgDict ==
    /\ Len(seq_pulses) > Len(old_plays)
    /\ LET a == generate_awg_dict(seq_pulses, "QCM")
       IN /\ old_awg_dict' = a.dict
          /\ old_plays' =
                 [i \in 1..Len(seq_pulses) |->
                     get_indices_from_wf_dict(seq_pulses[i].uuid,
                                              Some(a.dict)).idx]
    /\ UNCHANGED <<seq_pulses, output_mode, wf_dict, strategies, werr>>
    /\ UNCHANGED not_wf_vars

\* generate_data of the strategy of the next pulse
GenerateData ==
    /\ werr = "none"
    /\ Len(strategies) < Len(seq_pulses)
    /\ LET r == generate_data(wf_dict,
                              seq_pulses[Len(strategies) + 1].uuid,
                              output_mode)
       IN /\ wf_dict' = r.wf_dict
          /\ werr' = r.err
          /\ strategies' = IF r.err = "none"
                           THEN Append(strategies, r.strategy)
                           ELSE strategies
    /\ UNCHANGED <<seq_pulses, output_mode, old_awg_dict, old_plays>>
    /\ UNCHANGED not_wf_vars

StartWf ==
    /\ seq_pulses = <<>>
    /\ output_mode \in {"complex", "real"}
    /\ old_awg_dict = <<>>
    /\ old_plays = <<>>
    /\ wf_dict = <<>>
    /\ strategies = <<>>
    /\ werr = "none"

NextWf == AddPulse \/ GenerateAwgDict \/ GenerateData

InitWf == StartWf /\ IdleQasm /\ IdleFreq /\ IdleAssign /\ IdleMap
    /\ IdleAmp
    /\ IdleDist
    /\ IdleProg
    /\ IdleDet
    /\ IdlePb

SpecWf == InitWf /\ [][NextWf]_vars

-----------------------------------------------------------------------------
(* Properties of the waveform tables *)

\* The distinct elements of a sequence, in the order of their first
\* appearance
RECURSIVE Distinct(_)
Distinct(seq) ==
    IF seq = <<>> THEN <<>>
    ELSE LET front == Distinct(SubSeq(seq, 1, Len(seq) - 1))
             last == seq[Len(seq)]
         IN IF \E i \in 1..Len(front) : front[i] = last THEN front
            ELSE Append(front, last)

\* The fingerprints of the pulses that the last _generate_awg_dict saw
OldUuids == [i \in 1..Len(old_plays) |-> seq_pulses[i].uuid]

\* The index pairs of the plays of the strategies
NewPlays ==
    [i \in 1..Len(strategies) |->
        <<strategies[i].waveform_index0, strategies[i].waveform_index1>>]

NewUuids == [i \in 1..Len(strategies) |-> strategies[i].uuid]

\* Every play has an even first index and the next index as its second
PlaysPaired(plays) ==
    \A i \in 1..Len(plays) :
        plays[i][1] % 2 = 0 /\ plays[i][2] = plays[i][1] + 1

\* The k-th waveform inserted has the indices 2k and 2k + 1 in its plays
InsertionOrderPairs(uuids, plays) ==
    LET order == Distinct(uuids)
    IN \A i \in 1..Len(plays) :
           \A k \in 0..(Len(order) - 1) :
               order[k + 1] = uuids[i] => plays[i] = <<2 * k, 2 * k + 1>>

\* The indices of a table are 0 .. n - 1 in insertion order
DenseIndices(table) == \A j \in 1..Len(table) : table[j].index = j - 1

DistinctKeys(table) ==
    \A i, j \in 1..Len(table) : table[i].key = table[j].key => i = j

\* The table of _generate_waveform_dict: the k-th waveform inserted has its
\* real part named I at index 2k and its imaginary part named Q at 2k + 1
LayoutIQ(table, uuids) ==
    LET order == Distinct(uuids)
    IN /\ Len(table) = 2 * Len(order)
       /\ \A k \in 0..(Len(order) - 1) :
              /\ table[2 * k + 1] =
                     [key |-> <<order[k + 1], "I">>,
                      data |-> WaveformData(order[k + 1]).real,
                      index |-> 2 * k]
              /\ table[2 * k + 2] =
                     [key |-> <<order[k + 1], "Q">>,
                      data |-> WaveformData(order[k + 1]).imag,
                      index |-> 2 * k + 1]

Disjoint(pair1, pair2) ==
    {pair1[1], pair1[2]} \cap {pair2[1], pair2[2]} = {}

\* Pulses of one fingerprint play the same index pair
EqualShare(uuids, plays) ==
    \A i, j \in 1..Len(plays) : uuids[i] = uuids[j] => plays[i] = plays[j]

\* Pulses of two fingerprints play disjoint index pairs
DistinctDisjoint(uuids, plays) ==
    \A i, j \in 1..Len(plays) :
        uuids[i] # uuids[j] => Disjoint(plays[i], plays[j])

\* Two arrays of samples have one index exactly when they are equal after
\* rounding to 12 decimals
SharedIffEqualSamples ==
    \A i, j \in 1..Len(strategies) :
        LET di == WaveformData(strategies[i].uuid)
            dj == WaveformData(strategies[j].uuid)
            same(x, y) == generate_uuid_from_wf_data(x)
                              = generate_uuid_from_wf_data(y)
        IN /\ strategies[i].waveform_index0 = strategies[j].waveform_index0
                  <=> same(di.real, dj.real)
           /\ strategies[i].waveform_index1 = strategies[j].waveform_index1
                  <=> same(di.imag, dj.imag)
           /\ strategies[i].waveform_index0 = strategies[j].waveform_index1
                  <=> same(di.real, dj.imag)

\* A step only appends entries to the tables
AppendOnly ==
    /\ IsPrefix(old_awg_dict, old_awg_dict')
    /\ IsPrefix(wf_dict, wf_dict')
    /\ IsPrefix(old_plays, old_plays')
    /\ IsPrefix(strategies, strategies')

-----------------------------------------------------------------------------
(* Layout of a generated program *)

\* the instructions that auto_wait, update_runtime_settings,
\* wait_till_start_then_play and wait_till_start_then_acquire emit
BodyInstructions == {"wait", "play", "acquire", "set_awg_gain"}

\* C11: every generated program is wait_sync 4, set_mrk 1, move
\* <repetitions>,R0, the label start, the body, loop R0,@start, set_mrk 0,
\* upd_param 4, stop; the move operand is the repetition count, and
\* wait_sync and the first set_mrk are before the label, so they do not
\* repeat.
C11_ProgramLayout ==
    pc = "done" =>
        LET instrs == qasm.instrs
            n == Len(instrs)
        IN /\ n >= 8
           /\ instrs[1] = Row("", "wait_sync", <<GRID_TIME_ns>>, <<>>)
           /\ instrs[2] = Row("", "set_mrk", <<1>>, <<>>)
           /\ instrs[3] = Row("", "move", <<repetitions>>, <<loop_register>>)
           /\ instrs[4] = Row(loop_label, "", <<>>, <<>>)
           /\ \A i \in 5..(n - 4) :
                  /\ instrs[i].label = ""
                  /\ instrs[i].instr \in BodyInstructions
           /\ instrs[n - 3] =
                  Row("", "loop", <<>>, <<loop_register, loop_label>>)
           /\ instrs[n - 2] = Row("", "set_mrk", <<0>>, <<>>)
           /\ instrs[n - 1] = Row("", "upd_param", <<GRID_TIME_ns>>, <<>>)
           /\ instrs[n] = Row("", "stop", <<>>, <<>>)

\* a program of a schedule that repeats three times, with a play and a
\* wait in its body
C11_Witness ==
    /\ pc = "done"
    /\ repetitions = 3
    /\ \E i, j \in 5..(Len(qasm.instrs) - 4) :
           /\ qasm.instrs[i].instr = "play"
           /\ qasm.instrs[j].instr = "wait"

\* Two acquisitions of the sequencer start less than 1000 ns apart
AcquisitionsTooClose ==
    \E i, j \in 1..Len(acquisitions) :
        /\ i # j
        /\ Abs(acquisitions[i].timing - acquisitions[j].timing)
               < Ns(MIN_TIME_BETWEEN_ACQUISITIONS)

Acquires(instrs) == SelectSeq(instrs, LAMBDA row : row.instr = "acquire")

\* C14: compiling a sequencer with two acquisitions that start less than
\* 1000 ns apart ends with a ValueError, and never emits two acquire
\* instructions.
C14_AcquisitionsTooCloseRaise ==
    AcquisitionsTooClose =>
        /\ Len(Acquires(qasm.instrs)) < 2
        /\ Finished => (pc = "error" /\ err = "ValueError")

-----------------------------------------------------------------------------
(* The amplitude check of _generate_awg_dict *)

MaxAmpPulses == 2

AmpUuids == {"p4", "v700", "v1000", "v2500", "v3000", "v5000", "v6000"}

\* Peak output voltage of the AWG of a module, in mV
awg_output_volt(type) ==
    CASE type = "QCM" -> 2500
      [] type = "QRM" -> 500
      [] OTHER -> 250

\* InstrumentCompiler.add_pulse followed by _distribute_data
AmpAddPulse ==
    /\ ~amp_out.called
    /\ Len(amp_pulses) < MaxAmpPulses
    /\ \E uuid \in AmpUuids :
           amp_pulses' = Append(amp_pulses, OpInfo(uuid, Ns(0), FALSE))
    /\ UNCHANGED <<amp_type, amp_out>>
    /\ UNCHANGED not_amp_vars

\* compile: awg_dict = self._generate_awg_dict()
AmpGenerateAwgDict ==
    /\ ~amp_out.called
    /\ amp_pulses # <<>>
    /\ LET a == generate_awg_dict(amp_pulses, amp_type)
       IN amp_out' = [called |-> TRUE, pulses |-> a.pulses, err |-> a.err,
                      dict |-> a.dict]
    /\ UNCHANGED <<amp_type, amp_pulses>>
    /\ UNCHANGED not_amp_vars

StartAmp ==
    /\ amp_type \in {"QCM", "QRM"}
    /\ amp_pulses = <<>>
    /\ amp_out = NoAwgDict

NextAmp == AmpAddPulse \/ AmpGenerateAwgDict

InitAmp ==
    StartAmp /\ IdleQasm /\ IdleFreq /\ IdleAssign /\ IdleMap /\ IdleWf
        /\ IdleDist /\ IdleProg /\ IdleDet /\ IdlePb

SpecAmp == InitAmp /\ [][NextAmp]_vars

PeakAmplitude(uuid) ==
    Max(Abs(Amplitude(uuid).amp_i), Abs(Amplitude(uuid).amp_q))

\* C12: waveform generation raises the amplitude error exactly when the
\* larger of the I and Q peaks of some pulse exceeds the peak output
\* voltage of the module (2.5 V for a QCM, 0.5 V for a QRM), and every
\* accepted pulse gets gains within the range.
C12_RejectsAbovePeakVoltage ==
    amp_out.called =>
        /\ amp_out.err = "ValueError"
               <=> \E i \in 1..Len(amp_pulses) :
                       PeakAmplitude(amp_pulses[i].uuid)
                           > awg_output_volt(amp_type)
        /\ amp_out.err = "none" =>
               \A i \in 1..Len(amp_out.pulses) :
                   LET g == Val(amp_out.pulses[i].pulse_settings)
                   IN /\ Abs(g.awg_gain_0.num) <= g.awg_gain_0.den
                      /\ Abs(g.awg_gain_1.num) <= g.awg_gain_1.den

-----------------------------------------------------------------------------
(* The compilation of a sequencer and of a device as functions of the data  *)
(* assigned to them                                                         *)

\* the while loop of generate_qasm_program over op_queue
RECURSIVE qasm_body(_, _, _, _)
qasm_body(q, queue, awg, acq) ==
    IF queue = <<>> THEN Ok(q)
    ELSE LET op == Head(queue)
             idx == get_indices_from_wf_dict(
                        op.uuid, IF op.is_acquisition THEN acq ELSE awg)
             step == IF idx.err # "none" THEN Raise(q, idx.err)
                     ELSE IF op.is_acquisition
                     THEN wait_till_start_then_acquire(q, op, idx.idx[1],
                                                       idx.idx[2])
                     ELSE wait_till_start_then_play(q, op, idx.idx[1],
                                                    idx.idx[2])
         IN CHOOSE result \in
                {IF r.err # "none" THEN r
                 ELSE qasm_body(r.q, Tail(queue), awg, acq) : r \in {step}} :
                TRUE

generate_qasm_program(total_sequence_time, ps, awg, acqs, acq, reps) ==
    LET header == emit(emit(NewQASMProgram,
                            Row("", "wait_sync", <<GRID_TIME_ns>>, <<>>)),
                       Row("", "set_mrk", <<1>>, <<>>))
        end_time == to_pulsar_time(total_sequence_time)
        closed(q) == loop_end(q, loop_register, loop_label)
        footer(q) ==
            emit(emit(emit(q, Row("", "set_mrk", <<0>>, <<>>)),
                      Row("", "upd_param", <<GRID_TIME_ns>>, <<>>)),
                 Row("", "stop", <<>>, <<>>))
        tail(body) ==
            LET wait_time == end_time.ns - body.q.elapsed_time
            IN IF body.err # "none" THEN Raise(closed(body.q), body.err)
               ELSE IF end_time.err # "none"
               THEN Raise(closed(body.q), end_time.err)
               ELSE IF wait_time <= 0
               THEN Raise(closed(body.q), "RuntimeError")
               ELSE Ok(footer(closed(auto_wait(body.q, wait_time).q)))
    IN CHOOSE result \in
           {tail(body) :
               body \in {qasm_body(loop_start(header, loop_register,
                                              loop_label, reps),
                                   SortOps(ps \o acqs), awg, acq)}} :
           TRUE

\* Pulsar_sequencer_base.compile: None for a sequencer without data
sequencer_compile(ps, acqs, type, total, reps) ==
    IF ~has_data(ps, acqs) THEN [program |-> None, err |-> "none"]
    ELSE LET a == generate_awg_dict(ps, type)
             acq == IF Len(acqs) > 0 THEN Some(generate_acq_dict(acqs))
                    ELSE None
             p == generate_qasm_program(total, a.pulses, Some(a.dict), acqs,
                                        acq, reps)
         IN IF a.err # "none" THEN [program |-> None, err |-> a.err]
            ELSE IF p.err # "none" THEN [program |-> None, err |-> p.err]
            ELSE [program |-> Some(p.q.instrs), err |-> "none"]

-----------------------------------------------------------------------------
(* Distribution of the pulses and acquisitions of the schedule over the     *)
(* device compilers.  Device 0 of the mapping is the Pulsar_QCM "qcm0", the *)
(* other devices are Pulsar_QRMs.                                           *)

MaxSchedulables == 2

DeviceType(dev) == IF dev = 0 THEN "QCM" ELSE "QRM"

EmptySlot == [port |-> None, clock |-> None]
SlotOf(port, clock) == [port |-> Some(port), clock |-> Some(clock)]

\* Hardware mappings without duplicates: the QCM drives q0:mw and, in some,
\* q1:mw with the same clock; the first QRM reads q0:res with its own clock
\* or with the clock of the QCM.
DistMappings ==
    {[s \in Slots |-> CASE s = 1 -> SlotOf("q0:mw", "q0.01")
                        [] s = 2 -> second
                        [] s = OutputsPerDevice + 1 -> SlotOf("q0:res", ro)
                        [] OTHER -> EmptySlot] :
        second \in {EmptySlot, SlotOf("q1:mw", "q0.01")},
        ro \in {"q0.ro", "q0.01"}}

\* An entry of pulse_info or acquisition_info
InfoRecord(port, clock, t0, uuid) ==
    [port |-> port, clock |-> clock, t0 |-> t0, uuid |-> uuid]

OperationData(name, pulse_info, acquisition_info) ==
    [name |-> name, pulse_info |-> pulse_info,
     acquisition_info |-> acquisition_info]

\* The operations of the schedules: a pulse, a pulse with an offset of
\* 2 ns, a pulse on a second port, a pulse without port (a clock
\* operation), a measurement (pulse and acquisition), an acquisition alone,
\* an acquisition on the port of the QCM, and an operation without pulse or
\* acquisition info.
DistOperations ==
    {OperationData("X", <<InfoRecord(Some("q0:mw"), "q0.01", 0, "p20")>>,
                   <<>>),
     OperationData("X_t0",
                   <<InfoRecord(Some("q0:mw"), "q0.01", Ns(2), "p20")>>,
                   <<>>),
     OperationData("X1", <<InfoRecord(Some("q1:mw"), "q0.01", 0, "p20")>>,
                   <<>>),
     OperationData("Idle", <<InfoRecord(None, "q0.01", 0, "idle")>>, <<>>),
     OperationData("Measure",
                   <<InfoRecord(Some("q0:res"), "q0.ro", 0, "p20")>>,
                   <<InfoRecord(Some("q0:res"), "q0.ro", 0, "a100")>>),
     OperationData("Acq", <<>>,
                   <<InfoRecord(Some("q0:res"), "q0.ro", 0, "a100")>>),
     OperationData("AcqQcm", <<>>,
                   <<InfoRecord(Some("q0:mw"), "q0.01", 0, "a100")>>),
     OperationData("Empty", <<>>, <<>>)}

\* abs_time of a schedulable, in half ns: 0, 4, 2 and 4.5 ns
AbsTimes == {Ns(0), Ns(4), Ns(2), 9}

Schedulables == [op_data : DistOperations, abs_time : AbsTimes]

\* helpers.to_grid_time
to_grid_time(time) ==
    LET time_ns == RoundToNs(time)
    IN IF time_ns % GRID_TIME_ns # 0 THEN Raise(time_ns, "ValueError")
       ELSE Ok(time_ns)

\* defaultdict(list): d[key].append(x)
AppendTo(dict, key, x) ==
    IF HasKey(dict, key)
    THEN SetKey(dict, key, Append(Lookup(dict, key).value, x))
    ELSE Append(dict, [key |-> key, value |-> <<x>>])

\* InstrumentCompiler.add_pulse of the compiler of device dev
add_pulse(compilers, dev, portclock, pulse_info) ==
    [compilers EXCEPT ![dev + 1].pulses = AppendTo(@, portclock, pulse_info)]

add_acquisition_mut_accept(compilers, dev, portclock, acq_info) ==
    Ok([compilers EXCEPT
            ![dev + 1].acquisitions = AppendTo(@, portclock, acq_info)])

\* InstrumentCompiler.add_acquisition, overridden by Pulsar_QCM
add_acquisition(compilers, dev, portclock, acq_info) ==
    IF DeviceType(dev) = "QCM" THEN Raise(compilers, "RuntimeError")
    ELSE Ok([compilers EXCEPT
                 ![dev + 1].acquisitions = AppendTo(@, portclock, acq_info)])

\* helpers: a pulse without port goes to every port-clock of the mapping
\* that has its clock
RECURSIVE fan_out(_, _, _, _, _)
fan_out(compilers, map, i, clock, pulse_info) ==
    IF i > Len(map) THEN compilers
    ELSE fan_out(IF map[i].key[2] = clock
                 THEN add_pulse(compilers, map[i].value, map[i].key,
                                pulse_info)
                 ELSE compilers,
                 map, i + 1, clock, pulse_info)

RECURSIVE assign_pulses_mut_skip_unknown(_, _, _, _, _, _)
assign_pulses_mut_skip_unknown(variant, compilers, map, start, infos, i) ==
    IF i > Len(infos) THEN Ok(compilers)
    ELSE LET data == infos[i]
             pulse_start_time == start + data.t0
             combined_data == OpInfo(data.uuid, pulse_start_time, FALSE)
             portclock == <<Val(data.port), data.clock>>
         IN IF data.port = None \/ ~HasKey(map, portclock)
            THEN assign_pulses_mut_skip_unknown(variant, compilers, map,
                                                start, infos, i + 1)
            ELSE assign_pulses_mut_skip_unknown(
                     variant,
                     add_pulse(compilers, Lookup(map, portclock).value,
                               portclock, combined_data),
                     map, start, infos, i + 1)

\* The loop over op_data.data["pulse_info"] of
\* helpers.assign_pulse_and_acq_info_to_devices (variant "helpers") and of
\* qblox_backend._assign_pulse_and_acq_info_to_devices
RECURSIVE assign_pulses(_, _, _, _, _, _)
assign_pulses(variant, compilers, map, start, infos, i) ==
    IF i > Len(infos) THEN Ok(compilers)
    ELSE LET data == infos[i]
             pulse_start_time == start + data.t0
             combined_data == OpInfo(data.uuid, pulse_start_time, FALSE)
             portclock == <<Val(data.port), data.clock>>
         IN IF variant = "helpers"
                   /\ to_grid_time(pulse_start_time).err # "none"
            THEN Raise(compilers, "ValueError")
            ELSE IF data.port = None
            THEN assign_pulses(
                     variant,
                     IF variant = "helpers"
                     THEN fan_out(compilers, map, 1, data.clock,
                                  combined_data)
                     ELSE compilers,
                     map, start, infos, i + 1)
            ELSE IF ~HasKey(map, portclock) THEN Raise(compilers, "KeyError")
            ELSE assign_pulses(
                     variant,
                     add_pulse(compilers, Lookup(map, portclock).value,
                               portclock, combined_data),
                     map, start, infos, i + 1)

\* The loop over op_data.data["acquisition_info"], the same in both
RECURSIVE assign_acquisitions(_, _, _, _, _)
assign_acquisitions(compilers, map, start, infos, i) ==
    IF i > Len(infos) THEN Ok(compilers)
    ELSE LET data == infos[i]
             acq_start_time == start + data.t0
             combined_data == OpInfo(data.uuid, acq_start_time, TRUE)
             portclock == <<Val(data.port), data.clock>>
             added == add_acquisition(compilers,
                                      Lookup(map, portclock).value,
                                      portclock, combined_data)
         IN IF data.port = None
            THEN assign_acquisitions(compilers, map, start, infos, i + 1)
            ELSE IF ~HasKey(map, portclock) THEN Raise(compilers, "KeyError")
            ELSE IF added.err # "none" THEN added
            ELSE assign_acquisitions(added.q, map, start, infos, i + 1)

\* The loop over the schedulables
RECURSIVE assign_pulse_and_acq_info_to_devices(_, _, _, _, _)
assign_pulse_and_acq_info_to_devices(variant, sched, k, compilers, map) ==
    IF k > Len(sched) THEN Ok(compilers)
    ELSE LET op_data == sched[k].op_data
             operation_start_time == sched[k].abs_time
             p == assign_pulses(variant, compilers, map, operation_start_time,
                                op_data.pulse_info, 1)
             a == assign_acquisitions(p.q, map, operation_start_time,
                                      op_data.acquisition_info, 1)
         IN IF op_data.pulse_info = <<>> /\ op_data.acquisition_info = <<>>
            THEN Raise(compilers, "RuntimeError")
            ELSE IF p.err # "none" THEN p
            ELSE IF a.err # "none" THEN a
            ELSE assign_pulse_and_acq_info_to_devices(variant, sched, k + 1,
                                                      a.q, map)

\* get_total_duration / _calculate_total_play_time: the latest end of an
\* operation of the schedule (np.max raises for a schedule without
\* operation, so that a schedule has at least one)
RECURSIVE end_of_infos(_, _, _)
end_of_infos(start, infos, latest) ==
    IF infos = <<>> THEN latest
    ELSE end_of_infos(start, Tail(infos),
                      Max(latest, start + Head(infos).t0
                                      + Ns(Duration(Head(infos).uuid))))

RECURSIVE get_total_duration(_, _)
get_total_duration(sched, latest) ==
    IF sched = <<>> THEN latest
    ELSE LET op_data == Head(sched).op_data
             start == Head(sched).abs_time
         IN get_total_duration(
                Tail(sched),
                end_of_infos(start, op_data.acquisition_info,
                             end_of_infos(start, op_data.pulse_info, latest)))

\* The list that _distribute_data hands to the sequencer of a port-clock
DataOf(dict, portclock) ==
    IF HasKey(dict, portclock) THEN Lookup(dict, portclock).value ELSE <<>>

\* Pulsar_base.compile: the loop over the sequencers of device dev, from
\* slot s; a slot without port has no sequencer
RECURSIVE compile_sequencers(_, _, _, _, _, _, _)
compile_sequencers(dev, compiler, hw, s, total, reps, program) ==
    IF s > (dev + 1) * OutputsPerDevice THEN Ok(program)
    ELSE IF hw[s].port = None
    THEN compile_sequencers(dev, compiler, hw, s + 1, total, reps, program)
    ELSE LET portclock == <<Val(hw[s].port), Val(hw[s].clock)>>
             compiled ==
                 sequencer_compile(DataOf(compiler.pulses, portclock),
                                   DataOf(compiler.acquisitions, portclock),
                                   DeviceType(dev), total, reps)
             added(seq_program) ==
                 IF seq_program.program = None THEN program
                 ELSE Append(program, [key |-> OutputOf(s),
                                       value |-> Val(seq_program.program)])
         IN CHOOSE result \in
                {IF seq_program.err # "none"
                 THEN Raise(program, seq_program.err)
                 ELSE compile_sequencers(dev, compiler, hw, s + 1, total,
                                         reps, new_program) :
                    seq_program \in {compiled},
                    new_program \in {added(compiled)}} :
                TRUE

\* Pulsar_base.compile with the _distribute_data of the class of the device:
\* None for a device without program, else the sequencers' programs and
\* the settings
pulsar_compile(dev, compiler, hw, total, reps) ==
    IF DeviceType(dev) = "QCM" /\ compiler.acquisitions # <<>>
    THEN [program |-> None, err |-> "RuntimeError"]
    ELSE CHOOSE result \in
             {IF r.err # "none" THEN [program |-> None, err |-> r.err]
              ELSE IF Len(r.q) = 0 THEN [program |-> None, err |-> "none"]
              ELSE [program |->
                        Some([seqs |-> r.q,
                              settings |-> [hardware_averages |-> reps]]),
                    err |-> "none"] :
                 r \in {compile_sequencers(dev, compiler, hw,
                                           dev * OutputsPerDevice + 1,
                                           total, reps, <<>>)}} :
             TRUE

\* hardware_compile: the loop over device_compilers (the set with one
\* element binds r to the value of the call)
RECURSIVE compile_devices(_, _, _, _, _, _)
compile_devices(compilers, hw, dev, total, reps, compiled) ==
    IF dev >= NumDevices THEN Ok(compiled)
    ELSE CHOOSE result \in
             {IF r.err # "none" THEN Raise(compiled, r.err)
              ELSE compile_devices(
                       compilers, hw, dev + 1, total, reps,
                       IF r.program = None THEN compiled
                       ELSE Append(compiled, [key |-> dev,
                                              value |-> Val(r.program)])) :
                 r \in {pulsar_compile(dev, compilers[dev + 1], hw, total,
                                       reps)}} :
             TRUE

\* The hardware configuration with a Cluster: device 0 is a Pulsar of its
\* own, the devices from FirstModule on are the modules of the cluster
ClusterName == "cluster0"

PulsarName == "qcm0"

FirstModule == 1

ModuleName(dev) == IF dev = 1 THEN "cluster0_module1" ELSE "cluster0_module2"

\* Cluster.compile: the loop over instrument_compilers, the modules being
\* the device compilers; program starts with its "settings" entry
RECURSIVE cluster_modules(_, _, _, _, _, _)
cluster_modules(compilers, hw, dev, total, reps, program) ==
    IF dev >= NumDevices THEN Ok(program)
    ELSE CHOOSE result \in
             {IF r.err # "none" THEN Raise(program, r.err)
              ELSE cluster_modules(
                       compilers, hw, dev + 1, total, reps,
                       IF r.program # None /\ Len(Val(r.program).seqs) + 1 > 0
                       THEN Append(program, [key |-> ModuleName(dev),
                                             value |-> Val(r.program)])
                       ELSE program) :
                 r \in {pulsar_compile(dev, compilers[dev + 1], hw, total,
                                       reps)}} :
             TRUE

cluster_compile(compilers, hw, total, reps) ==
    CHOOSE result \in
        {IF r.err # "none" THEN [program |-> None, err |-> r.err]
         ELSE IF Len(r.q) = 0 THEN [program |-> None, err |-> "none"]
         ELSE [program |-> Some(r.q), err |-> "none"] :
            r \in {cluster_modules(
                       compilers, hw, FirstModule, total, reps,
                       <<[key |-> "settings",
                          value |-> [reference_source |-> "internal"]]>>)}} :
        TRUE

PortclockMapping == generate_port_clock_to_device_map(dist_hw, 0, <<>>).q

\* hardware_compile: _assign_pulse_and_acq_info_to_devices (or the one of
\* helpers)
AssignPulseAndAcqInfoToDevices ==
    /\ dpc = "start"
    /\ \E r \in {assign_pulse_and_acq_info_to_devices(
                      dist_variant, schedule, 1, device_compilers,
                      PortclockMapping)} :
          /\ device_compilers' = r.q
          /\ derr' = r.err
          /\ dpc' = IF r.err = "none" THEN "distributed" ELSE "error"
    /\ UNCHANGED <<dist_variant, dist_hw, schedule, dist_total,
                   compiled_schedule>>
    /\ UNCHANGED not_dist_vars

\* A write to the acquisition table of the QCM that does not go through
\* add_acquisition: qcm._acquisitions[0] = 0
SetAcquisitionsDirectly ==
    /\ dpc = "distributed"
    /\ device_compilers[1].acquisitions = <<>>
    /\ device_compilers' =
           [device_compilers EXCEPT ![1].acquisitions = SetKey(@, 0, 0)]
    /\ UNCHANGED <<dist_variant, dist_hw, schedule, dist_total,
                   compiled_schedule, dpc, derr>>
    /\ UNCHANGED not_dist_vars

\* hardware_compile: compile of every device compiler, and the dict of the
\* programs that are not None
CompileDevices ==
    /\ dpc = "distributed"
    /\ \E reps \in RepetitionCounts :
           \E r \in {compile_devices(device_compilers, dist_hw, 0,
                                      dist_total, reps, <<>>)} :
              /\ compiled_schedule' = r.q
              /\ derr' = r.err
              /\ dpc' = IF r.err = "none" THEN "compiled" ELSE "failed"
    /\ UNCHANGED <<dist_variant, dist_hw, schedule, device_compilers,
                   dist_total>>
    /\ UNCHANGED not_dist_vars

\* hardware_compile with two device compilers: the Pulsar of device 0 and
\* a Cluster that has the other devices as its modules
CompileCluster ==
    /\ dpc = "distributed"
    /\ \E reps \in RepetitionCounts :
           \E p \in {pulsar_compile(0, device_compilers[1], dist_hw,
                                     dist_total, reps)},
              c \in {cluster_compile(device_compilers, dist_hw, dist_total,
                                     reps)} :
           LET failure == IF p.err # "none" THEN p.err ELSE c.err
           IN /\ compiled_schedule' =
                     IF failure # "none" THEN <<>>
                     ELSE (IF p.program = None THEN <<>>
                           ELSE <<[key |-> PulsarName,
                                   value |-> Val(p.program)]>>)
                          \o (IF c.program = None THEN <<>>
                              ELSE <<[key |-> ClusterName,
                                      value |-> Val(c.program)]>>)
              /\ derr' = failure
              /\ dpc' = IF failure = "none" THEN "cluster_compiled"
                        ELSE "failed"
    /\ UNCHANGED <<dist_variant, dist_hw, schedule, device_compilers,
                   dist_total>>
    /\ UNCHANGED not_dist_vars

StartDist ==
    /\ dist_variant \in {"helpers", "qblox_backend"}
    /\ dist_hw \in DistMappings
    /\ schedule \in SeqsUpTo(Schedulables, MaxSchedulables) \ {<<>>}
    /\ device_compilers =
           [d \in 1..NumDevices |-> [pulses |-> <<>>, acquisitions |-> <<>>]]
    /\ dist_total = get_total_duration(schedule, 0)
    /\ compiled_schedule = <<>>
    /\ dpc = "start"
    /\ derr = "none"

NextDist ==
    \/ AssignPulseAndAcqInfoToDevices
    \/ SetAcquisitionsDirectly
    \/ CompileDevices
    \/ CompileCluster

InitDist ==
    StartDist /\ IdleQasm /\ IdleFreq /\ IdleAssign /\ IdleMap /\ IdleWf
        /\ IdleAmp /\ IdleProg /\ IdleDet /\ IdlePb

SpecDist == InitDist /\ [][NextDist]_vars

-----------------------------------------------------------------------------
(* Properties of the distribution *)

HasInfo(op_data) ==
    op_data.pulse_info # <<>> \/ op_data.acquisition_info # <<>>

\* C13: when the abs_time of a schedulable with pulse or acquisition info is
\* not a multiple of 4 ns, the distributor raises (the grid error), whatever
\* the offsets t0 and whether the operation has pulses, acquisitions or
\* both: the distribution of such a schedule never completes.
C13_OffGridAbsTimeRaises ==
    (/\ dist_variant = "helpers"
     /\ dpc # "start"
     /\ \E k \in 1..Len(schedule) :
            /\ HasInfo(schedule[k].op_data)
            /\ ~OnGrid(schedule[k].abs_time))
        => dpc = "error"

\* Number of times x occurs in the sequence list
Count(list, x) == Cardinality({i \in 1..Len(list) : list[i] = x})

\* The pulses without port of the schedule as (k, i): entry i of the
\* pulse_info of schedulable k
NullPortPulses ==
    {ki \in (1..Len(schedule)) \X (1..1) :
        /\ ki[2] <= Len(schedule[ki[1]].op_data.pulse_info)
        /\ schedule[ki[1]].op_data.pulse_info[ki[2]].port = None}

NullPortInfo(ki) ==
    LET data == schedule[ki[1]].op_data.pulse_info[ki[2]]
    IN OpInfo(data.uuid, schedule[ki[1]].abs_time + data.t0, FALSE)

NullPortClock(ki) == schedule[ki[1]].op_data.pulse_info[ki[2]].clock

\* C17: after the distribution, a pulse without port is in the pulse list
\* of every port-clock of the mapping that has its clock, once for each
\* such pulse of the schedule, and in no other list.
C17_NullPortFanOut ==
    dpc = "distributed" =>
        \A ki \in NullPortPulses :
            \A m \in 1..Len(PortclockMapping) :
                LET entry == PortclockMapping[m]
                    list == DataOf(device_compilers[entry.value + 1].pulses,
                                   entry.key)
                    copies == Cardinality(
                                  {other \in NullPortPulses :
                                      NullPortInfo(other) = NullPortInfo(ki)})
                IN Count(list, NullPortInfo(ki)) =
                       IF entry.key[2] = NullPortClock(ki) THEN copies ELSE 0

\* The slots of the hardware mapping that belong to device dev
SlotsOf(dev) == (dev * OutputsPerDevice + 1)..((dev + 1) * OutputsPerDevice)

\* has_data of the sequencer of slot s of device dev
SequencerHasData(dev, s) ==
    /\ dist_hw[s].port # None
    /\ LET portclock == <<Val(dist_hw[s].port), Val(dist_hw[s].clock)>>
       IN \/ DataOf(device_compilers[dev + 1].pulses, portclock) # <<>>
          \/ DataOf(device_compilers[dev + 1].acquisitions, portclock) # <<>>

DeviceHasData(dev) == \E s \in SlotsOf(dev) : SequencerHasData(dev, s)

\* The entries of a device program are those of its sequencers with data
SequencerEntries(dev, program) ==
    \A s \in SlotsOf(dev) :
        HasKey(program.seqs, OutputOf(s)) <=> SequencerHasData(dev, s)

PulsarEntriesIffData ==
    dpc = "compiled" =>
        \A dev \in 0..(NumDevices - 1) :
            /\ HasKey(compiled_schedule, dev) <=> DeviceHasData(dev)
            /\ HasKey(compiled_schedule, dev) =>
                   SequencerEntries(dev, Lookup(compiled_schedule, dev).value)

ClusterEntryIffData ==
    dpc = "cluster_compiled" =>
        /\ HasKey(compiled_schedule, PulsarName) <=> DeviceHasData(0)
        /\ HasKey(compiled_schedule, ClusterName)
               <=> \E dev \in FirstModule..(NumDevices - 1) :
                       DeviceHasData(dev)

\* C15: the artifact has an entry for a device exactly when one of its
\* sequencers has data, a device entry has an entry for a sequencer exactly
\* when that sequencer has data, and a Cluster of which no module has data
\* has no entry.
C15_EntriesIffData == PulsarEntriesIffData /\ ClusterEntryIffData

\* The records with a port of the schedule as <<k, kind, i>>: entry i of the
\* pulse_info ("pulse") or acquisition_info ("acq") of schedulable k
InfosOf(k, kind) ==
    IF kind = "pulse" THEN schedule[k].op_data.pulse_info
    ELSE schedule[k].op_data.acquisition_info

PortRecords ==
    {r \in (1..Len(schedule)) \X {"pulse", "acq"} \X (1..1) :
        /\ r[3] <= Len(InfosOf(r[1], r[2]))
        /\ InfosOf(r[1], r[2])[r[3]].port # None}

RecordPortclock(r) ==
    LET data == InfosOf(r[1], r[2])[r[3]]
    IN <<Val(data.port), data.clock>>

RecordInfo(r) ==
    LET data == InfosOf(r[1], r[2])[r[3]]
    IN OpInfo(data.uuid, schedule[r[1]].abs_time + data.t0, r[2] = "acq")

UnknownPortclock(r) == ~HasKey(PortclockMapping, RecordPortclock(r))

\* Another reason for the distribution to raise: an operation without
\* record, a pulse off the grid, an acquisition for a QCM
OtherErrorCause ==
    \/ \E k \in 1..Len(schedule) : ~HasInfo(schedule[k].op_data)
    \/ /\ dist_variant = "helpers"
       /\ \E k \in 1..Len(schedule) :
              \E i \in 1..Len(schedule[k].op_data.pulse_info) :
                  to_grid_time(schedule[k].abs_time
                               + schedule[k].op_data.pulse_info[i].t0).err
                      # "none"
    \/ \E r \in PortRecords :
           /\ r[2] = "acq"
           /\ ~UnknownPortclock(r)
           /\ DeviceType(Lookup(PortclockMapping, RecordPortclock(r)).value)
                  = "QCM"

\* Every list of a device compiler is the list of a port-clock of the
\* mapping that this device owns
OwnedOnly(compilers) ==
    \A d \in 1..NumDevices :
        \A kind \in {"pulse", "acq"} :
            LET dict == IF kind = "pulse" THEN compilers[d].pulses
                        ELSE compilers[d].acquisitions
            IN \A n \in 1..Len(dict) :
                   /\ HasKey(PortclockMapping, dict[n].key)
                   /\ Lookup(PortclockMapping, dict[n].key).value = d - 1

\* Every record with a port is in the list of its port-clock at its owner,
\* once for each such record of the schedule
Delivered(compilers) ==
    \A r \in PortRecords :
        LET owner == Lookup(PortclockMapping, RecordPortclock(r)).value
            dict == IF r[2] = "pulse" THEN compilers[owner + 1].pulses
                    ELSE compilers[owner + 1].acquisitions
            copies == Cardinality(
                          {other \in PortRecords :
                              /\ RecordPortclock(other) = RecordPortclock(r)
                              /\ RecordInfo(other) = RecordInfo(r)})
        IN /\ ~UnknownPortclock(r)
           /\ Count(DataOf(dict, RecordPortclock(r)), RecordInfo(r)) = copies

\* C18: the distribution of a schedule with a record whose port-clock is not
\* in the mapping raises (KeyError when there is no other reason to raise),
\* no list is made for a port-clock outside the mapping or at a device that
\* does not own it, and a distribution that completes has put every record
\* with a port into the list of its port-clock at the owner.
C18_UnknownPortclock ==
    [][AssignPulseAndAcqInfoToDevices =>
          /\ (\E r \in PortRecords : UnknownPortclock(r)) => dpc' = "error"
          /\ ((\E r \in PortRecords : UnknownPortclock(r))
                  /\ ~OtherErrorCause) => derr' = "KeyError"
          /\ OwnedOnly(device_compilers')
          /\ dpc' = "distributed" => Delivered(device_compilers')]_vars

\* A record was delivered to its owner before a later record with an
\* unknown port-clock raised
C18_Witness ==
    /\ dpc = "error"
    /\ derr = "KeyError"
    /\ \E r \in PortRecords : UnknownPortclock(r)
    /\ \E r \in PortRecords :
           /\ ~UnknownPortclock(r)
           /\ RecordInfo(r) \in
                  {DataOf(device_compilers[
                              Lookup(PortclockMapping,
                                     RecordPortclock(r)).value + 1].pulses,
                          RecordPortclock(r))[n] :
                      n \in 1..Len(DataOf(
                               device_compilers[
                                   Lookup(PortclockMapping,
                                          RecordPortclock(r)).value
                                   + 1].pulses,
                               RecordPortclock(r)))}

\* The acquisition records of the schedule whose port-clock belongs to a QCM
QcmAcquisitions ==
    {r \in PortRecords :
        /\ r[2] = "acq"
        /\ ~UnknownPortclock(r)
        /\ DeviceType(Lookup(PortclockMapping, RecordPortclock(r)).value)
               = "QCM"}

\* The sequencer programs of the QCM (device 0) in the compiled schedule
QcmPrograms ==
    IF dpc = "compiled" /\ HasKey(compiled_schedule, 0)
    THEN Lookup(compiled_schedule, 0).value.seqs
    ELSE IF dpc = "cluster_compiled" /\ HasKey(compiled_schedule, PulsarName)
    THEN Lookup(compiled_schedule, PulsarName).value.seqs
    ELSE <<>>

\* C19: the distribution of a schedule with an acquisition for a QCM raises,
\* the compilation of a QCM with acquisitions in its table never completes,
\* and no program of a QCM sequencer has an acquire instruction.
C19_NoAcquisitionOnQcm ==
    /\ (dpc # "start" /\ QcmAcquisitions # {}) => dpc = "error"
    /\ device_compilers[1].acquisitions # <<>> =>
           dpc \in {"start", "distributed", "error", "failed"}
    /\ (dpc = "failed" /\ device_compilers[1].acquisitions # <<>>) =>
           derr = "RuntimeError"
    /\ \A n \in 1..Len(QcmPrograms) :
           \A j \in 1..Len(QcmPrograms[n].value) :
               QcmPrograms[n].value[j].instr # "acquire"

\* add_acquisition of the QCM has raised for an acquisition of the schedule
C19_Witness ==
    /\ dpc = "error"
    /\ derr = "RuntimeError"
    /\ QcmAcquisitions # {}
    /\ \A k \in 1..Len(schedule) : HasInfo(schedule[k].op_data)

-----------------------------------------------------------------------------
(* Properties of the frequency resolution without mixing *)

\* The clock frequency after the optional downconversion
DownconvertedClock ==
    IF freqs.downconverter_freq # None
    THEN Val(freqs.downconverter_freq) - freqs.clock_freq
    ELSE freqs.clock_freq

MixlessLoIsClock ==
    (freqs.called /\ ~freqs.mix_lo /\ freqs.err = "none") =>
        freqs.f_LO = Some(DownconvertedClock)

\* C20: determine_clock_lo_interm_freqs with mix_lo false returns the
\* (downconverted) clock frequency as LO and 0 as IF, whatever lo_freq and
\* interm_freq are.
C20_MixlessFrequencies ==
    (freqs.called /\ ~freqs.mix_lo /\ freqs.err = "none") =>
        /\ freqs.f_LO = Some(DownconvertedClock)
        /\ freqs.f_IF = Some(0)

-----------------------------------------------------------------------------
(* Properties of the pruning of the local oscillators *)

\* The LOs named by an output that has data
LosWithData == {hw_mapping[i].lo_name : i \in {o \in Outputs : hw_mapping[o].with_data}}

LoCompilerNames == {lo_compilers[n].key : n \in 1..Len(lo_compilers)}

\* C16: after _assign_frequencies the LO compilers are those of the LOs
\* named by an output with data: an LO of outputs without data only is
\* removed, an LO of an output with data is kept.
C16_UnusedLosPruned ==
    fpc = "assigned" => LoCompilerNames = LosWithData

-----------------------------------------------------------------------------
(* Properties of the downconversion *)

\* C21: with a downconverter frequency D, determine_clock_lo_interm_freqs
\* raises ValueError exactly when D < 0 or D < clock_freq (so D = 0 passes
\* for a clock frequency of 0); otherwise the clock it returns is
\* D - clock_freq, and LO and IF are derived from that clock.
C21_Downconverter ==
    (freqs.called /\ freqs.downconverter_freq # None) =>
        LET D == Val(freqs.downconverter_freq)
            clock == D - freqs.clock_freq
        IN IF D < 0 \/ D < freqs.clock_freq
           THEN freqs.err = "ValueError"
           ELSE /\ freqs.err = "none"
                /\ freqs.f_clock = Some(clock)
                /\ ~freqs.mix_lo => freqs.f_LO = Some(clock)
                /\ (freqs.mix_lo /\ freqs.interm_freq # None) =>
                       freqs.f_LO = Some(clock - Val(freqs.interm_freq))
                /\ (freqs.mix_lo /\ freqs.lo_freq # None) =>
                       freqs.f_IF = Some(clock - Val(freqs.lo_freq))

\* A downconverted clock of 150 - 100 from which the LO was derived
C21_Witness ==
    /\ freqs.called
    /\ freqs.downconverter_freq = Some(150)
    /\ freqs.clock_freq = 100
    /\ freqs.mix_lo
    /\ freqs.interm_freq = Some(10)
    /\ freqs.err = "none"
    /\ freqs.f_clock = Some(50)
    /\ freqs.f_LO = Some(40)

-----------------------------------------------------------------------------
(* A QASMProgram on which the methods are called directly, as the tests do *)

MaxProgCalls == 2

\* wait_time of auto_wait, in ns: not positive, up to one immediate, a
\* multiple of the immediate, and more than one immediate
WaitTimes ==
    {-120, 0, 1, 4, 120, 65535, 65536, 70000, 131070, 131071, 700000}

\* qasm.auto_wait(wait_time); an exception leaves the object as it was
AutoWait ==
    /\ prog_calls < MaxProgCalls
    /\ \E wait_time \in WaitTimes :
           \E r \in {auto_wait(prog_qasm, wait_time)} :
               /\ prog_qasm' = r.q
               /\ prog_call' = [name |-> "auto_wait", wait_time |-> wait_time,
                                before |-> prog_qasm, err |-> r.err]
    /\ prog_calls' = prog_calls + 1
    /\ UNCHANGED not_prog_vars

\* constants.PULSE_STITCHING_DURATION, in ns
PULSE_STITCHING_DURATION_ns == 1000

\* The register that the loop of a pulse strategy gets
stitch_register == "R2"

stitch_label(q) == <<"stitch", Len(q.instrs)>>

\* StitchedSquarePulseStrategy.insert_qasm for a pulse of duration ns (the
\* gain is set as update_runtime_settings does, the loop context is the one
\* of QASMProgram.loop); elapsed_time is advanced inside the loop context
stitched_insert_qasm(q, pulse, idx0, idx1) ==
    LET duration == pulse.duration
        reps == duration \div PULSE_STITCHING_DURATION_ns
        stitch == to_grid_time(Ns(PULSE_STITCHING_DURATION_ns)).q
        g == update_runtime_settings(q, pulse)
        play(time) == Row("", "play", <<idx0, idx1, time>>, <<>>)
        looped == IF reps > 1
                  THEN [loop_end(emit(loop_start(g.q, stitch_register,
                                                 stitch_label(g.q), reps),
                                      play(stitch)),
                                 stitch_register, stitch_label(g.q))
                            EXCEPT !.elapsed_time = @ + reps * stitch]
                  ELSE IF reps = 1
                  THEN [emit(g.q, play(stitch))
                            EXCEPT !.elapsed_time = @ + stitch]
                  ELSE g.q
        remaining == to_grid_time(Ns(duration % PULSE_STITCHING_DURATION_ns))
        rest == IF remaining.q > 0
                THEN emit(emit(looped, play(remaining.q)),
                          Row("", "set_awg_gain", <<0, 0>>, <<>>))
                ELSE looped
    IN IF g.err # "none" THEN g
       ELSE IF remaining.err # "none" THEN Raise(looped, remaining.err)
       ELSE Ok([rest EXCEPT !.elapsed_time = @ + remaining.q])

\* Durations of the stitched square pulses, in ns: shorter than a stitch
\* unit, one or several whole units, units and a residue (20500 ns in
\* test_pulse_stitching_qasm_prog), and not on the grid
StitchDurations == {4, 500, 1000, 1004, 2000, 2500, 3000, 20500, 1002}

\* strategy.insert_qasm(qasm_program) of a StitchedSquarePulseStrategy
StitchedInsertQasm ==
    /\ prog_calls < MaxProgCalls
    /\ \E duration \in StitchDurations :
           LET pulse ==
                   [uuid |-> "stitched_square_pulse", timing |-> Ns(4),
                    is_acquisition |-> FALSE, duration |-> duration,
                    pulse_settings |->
                        Some([awg_gain_0 |-> [num |-> 1, den |-> 1],
                              awg_gain_1 |-> [num |-> 1, den |-> 1]])]
           IN \E r \in {stitched_insert_qasm(prog_qasm, pulse, 0, 1)} :
                  /\ prog_qasm' = r.q
                  /\ prog_call' = [name |-> "stitched_insert_qasm",
                                   duration |-> duration,
                                   before |-> prog_qasm, err |-> r.err]
    /\ prog_calls' = prog_calls + 1
    /\ UNCHANGED not_prog_vars

\* InstrumentCompiler awg_output_volt of the QCM, in mV
awg_output_volt_mV == 2500

\* A Python int that does not fit 31 bits, as two base-2^16 digits:
\* hi * 2^16 + lo with lo in 0..2^16-1
HalfWord == 65536

WideOf(i) == [hi |-> i \div HalfWord, lo |-> i % HalfWord]

WideAdd(a, b) ==
    [hi |-> a.hi + b.hi + ((a.lo + b.lo) \div HalfWord),
     lo |-> (a.lo + b.lo) % HalfWord]

\* constants.REGISTER_SIZE = pow(2, 32) - 1
REGISTER_SIZE == [hi |-> HalfWord - 1, lo |-> HalfWord - 1]

\* The scratch registers of temp_register(2) and the register of the loop
offs_reg == "offs_reg"

offs_reg_zero == "offs_reg_zero"

ramp_register == "ramp_reg"

ramp_label(q) == <<"ramp", Len(q.instrs)>>

\* StaircasePulseStrategy._generate_step
generate_step(q, mode, amp_step_immediate) ==
    LET offs == IF mode = "imag" THEN <<offs_reg_zero, offs_reg>> ELSE <<offs_reg, offs_reg_zero>>
        set == emit(q, Row("", "set_awg_offs", <<>>, offs))
        upd == [emit(set, Row("", "upd_param", <<GRID_TIME_ns>>, <<>>)) EXCEPT !.elapsed_time = @ + GRID_TIME_ns]
    IN IF amp_step_immediate >= 0
       THEN emit(upd, Row("", "add", <<amp_step_immediate>>, <<offs_reg, offs_reg>>))
       ELSE emit(upd, Row("", "sub", <<-amp_step_immediate>>, <<offs_reg, offs_reg>>))

\* StaircasePulseStrategy._generate_staircase_loop; the loop instruction is
\* emitted on the way out of the loop context, also when auto_wait raises
generate_staircase_loop(q, mode, start_amp_immediate, amp_step_immediate, step_duration_ns, num_steps) ==
    LET gain == emit(q, Row("", "set_awg_gain", <<IMMEDIATE_SZ \div 2, IMMEDIATE_SZ \div 2>>, <<>>))
        regs == emit(emit(gain, Row("", "move", <<start_amp_immediate>>, <<offs_reg>>)), Row("", "move", <<0>>, <<offs_reg_zero>>))
        line == emit(regs, Row("", "", <<>>, <<>>))
        label == ramp_label(line)
        step == generate_step(loop_start(line, ramp_register, label, num_steps), mode, amp_step_immediate)
        waited == auto_wait(step, step_duration_ns - GRID_TIME_ns)
        looped == loop_end(waited.q, ramp_register, label)
        elapsed == [looped EXCEPT !.elapsed_time = @ + (IF num_steps > 1 THEN step_duration_ns * (num_steps - 1) ELSE 0)]
        zero == emit(elapsed, Row("", "set_awg_offs", <<0, 0>>, <<>>))
    IN IF waited.err # "none" THEN Raise(looped, waited.err)
       ELSE Ok(emit(zero, Row("", "", <<>>, <<>>)))

\* StaircasePulseStrategy.insert_qasm; amplitudes in mV, duration in ns
staircase_insert_qasm(q, pulse, mode) ==
    LET num_steps == pulse.num_steps
        step_duration_ns == to_grid_time((2 * pulse.duration) \div num_steps)
        amp_step_immediate == expand_from_normalised_range([num |-> pulse.final_amp - pulse.start_amp, den |-> (num_steps - 1) * awg_output_volt_mV])
        start_amp_immediate == expand_from_normalised_range([num |-> pulse.start_amp, den |-> awg_output_volt_mV])
        start == IF start_amp_immediate.imm < 0 THEN WideAdd(WideOf(start_amp_immediate.imm), REGISTER_SIZE) ELSE WideOf(start_amp_immediate.imm)
    IN IF step_duration_ns.err # "none" THEN Raise(q, step_duration_ns.err)
       ELSE IF amp_step_immediate.err # "none" THEN Raise(q, amp_step_immediate.err)
       ELSE IF start_amp_immediate.err # "none" THEN Raise(q, start_amp_immediate.err)
       ELSE generate_staircase_loop(q, mode, start, amp_step_immediate.imm, step_duration_ns.q, num_steps)

\* start_amp and final_amp of the StaircasePulse, in mV
StaircaseAmps == {-2600, -2000, -1100, -1, 0, 1235, 2100}

\* num_steps and the duration in ns: steps of 1240 ns and 6200 ns, of 8 ns
\* and 40 ns, of one grid time, and of 10 ns (not on the grid)
StaircaseSteps == {2, 10}

StaircaseDurations == {40, 80, 100, 12400}

OutputModes == {"real", "imag"}

\* strategy.insert_qasm(qasm) of a StaircasePulseStrategy
StaircaseInsertQasm ==
    /\ prog_calls < MaxProgCalls
    /\ \E start_amp \in StaircaseAmps, final_amp \in StaircaseAmps, num_steps \in StaircaseSteps, duration \in StaircaseDurations, mode \in OutputModes :
           LET pulse == [uuid |-> "staircase", timing |-> Ns(4), is_acquisition |-> FALSE, duration |-> duration, num_steps |-> num_steps, start_amp |-> start_amp, final_amp |-> final_amp]
           IN \E r \in {staircase_insert_qasm(prog_qasm, pulse, mode)} :
                  /\ prog_qasm' = r.q
                  /\ prog_call' = [name |-> "staircase_insert_qasm", pulse |-> pulse, output_mode |-> mode, before |-> prog_qasm, err |-> r.err]
    /\ prog_calls' = prog_calls + 1
    /\ UNCHANGED not_prog_vars

\* The normalised gains awg_gain_0 / awg_gain_1 of QASMRuntimeSettings, as
\* fractions: within the range, on its two ends and outside it
GainFractions ==
    {[num |-> n, den |-> 1000] :
        n \in {-10000, -1000, -500, -1, 0, 50, 500, 1000, 1001}}

\* qasm.update_runtime_settings(operation) for a pulse with pulse_settings
UpdateRuntimeSettings ==
    /\ prog_calls < MaxProgCalls
    /\ \E g0 \in GainFractions, g1 \in GainFractions :
           LET pulse ==
                   [OpInfo("p20", Ns(4), FALSE) EXCEPT
                        !.pulse_settings =
                            Some([awg_gain_0 |-> g0, awg_gain_1 |-> g1])]
           IN \E r \in {update_runtime_settings(prog_qasm, pulse)} :
                  /\ prog_qasm' = r.q
                  /\ prog_call' = [name |-> "update_runtime_settings",
                                   awg_gain_0 |-> g0, awg_gain_1 |-> g1,
                                   before |-> prog_qasm, err |-> r.err]
    /\ prog_calls' = prog_calls + 1
    /\ UNCHANGED not_prog_vars

StartProg ==
    /\ prog_qasm = NewQASMProgram
    /\ prog_call = NoProgCall
    /\ prog_calls = 0

NextProg ==
    \/ AutoWait
    \/ UpdateRuntimeSettings
    \/ StitchedInsertQasm
    \/ StaircaseInsertQasm

InitProg ==
    StartProg /\ IdleQasm /\ IdleFreq /\ IdleAssign /\ IdleMap /\ IdleWf
        /\ IdleAmp /\ IdleDist /\ IdleDet /\ IdlePb

SpecProg == InitProg /\ [][NextProg]_vars

-----------------------------------------------------------------------------
(* Properties of auto_wait *)

WaitRow(time) == Row("", "wait", <<time>>, <<>>)

-----------------------------------------------------------------------------
(* Properties of the gain immediates *)

\* floor(val * 32768), clamped to the signed 16-bit range
ClampedGain(val) ==
    LET imm == (val.num * 32768) \div val.den
    IN IF imm > 32767 THEN 32767 ELSE IF imm < -32768 THEN -32768 ELSE imm

InNormalisedRange(val) == Abs(val.num) <= val.den

\* C26: for normalised gains of magnitude at most 1, update_runtime_settings
\* emits set_awg_gain with floor(gain * 32768) clamped to -32768..32767 for
\* each path; with a gain of magnitude above 1 it raises ValueError and
\* emits nothing.
C26_GainImmediate ==
    prog_call.name = "update_runtime_settings" =>
        LET g0 == prog_call.awg_gain_0
            g1 == prog_call.awg_gain_1
            before == prog_call.before
        IN IF InNormalisedRange(g0) /\ InNormalisedRange(g1)
           THEN /\ prog_call.err = "none"
                /\ IsPrefix(before.instrs, prog_qasm.instrs)
                /\ Emitted(before, prog_qasm) =
                       <<Row("", "set_awg_gain",
                             <<ClampedGain(g0), ClampedGain(g1)>>, <<>>)>>
           ELSE /\ prog_call.err = "ValueError"
                /\ prog_qasm = before

\* What the code does emit: floor(gain * 65535 / 2), which is within the
\* signed 16-bit range without clamping
GainImmediateOfCode ==
    prog_call.name = "update_runtime_settings" =>
        LET g0 == prog_call.awg_gain_0
            g1 == prog_call.awg_gain_1
            before == prog_call.before
            imm(val) == (val.num * IMMEDIATE_SZ) \div (2 * val.den)
        IN IF InNormalisedRange(g0) /\ InNormalisedRange(g1)
           THEN /\ prog_call.err = "none"
                /\ Emitted(before, prog_qasm) =
                       <<Row("", "set_awg_gain", <<imm(g0), imm(g1)>>, <<>>)>>
                /\ imm(g0) \in -32768..32767
                /\ imm(g1) \in -32768..32767
           ELSE /\ prog_call.err = "ValueError"
                /\ prog_qasm = before

-----------------------------------------------------------------------------
(* Properties of the stitched square pulse *)

PlayRow(time) == Row("", "play", <<0, 1, time>>, <<>>)

\* The code that the stitching is to emit after set_awg_gain for a pulse of
\* duration D, as the rows without their labels
StitchedLayout(D, label) ==
    LET reps == D \div PULSE_STITCHING_DURATION_ns
        residue == D % PULSE_STITCHING_DURATION_ns
    IN (IF reps > 1
        THEN <<Row("", "move", <<reps>>, <<stitch_register>>),
               Row(label, "", <<>>, <<>>),
               PlayRow(PULSE_STITCHING_DURATION_ns),
               Row("", "loop", <<>>, <<stitch_register, label>>)>>
        ELSE IF reps = 1 THEN <<PlayRow(PULSE_STITCHING_DURATION_ns)>>
        ELSE <<>>)
       \o (IF residue # 0 THEN <<PlayRow(residue)>> ELSE <<>>)

\* C27: for a square pulse of D ns, D a multiple of 4, the stitching emits
\* after set_awg_gain floor(D / 1000) plays of 1000 ns (in a loop when more
\* than one), a play of D mod 1000 ns when that is not 0, and a final
\* set_awg_gain 0,0; elapsed_time grows by D.
C27_Stitching ==
    (prog_call.name = "stitched_insert_qasm"
        /\ prog_call.duration % GRID_TIME_ns = 0) =>
        LET D == prog_call.duration
            before == prog_call.before
            rows == Emitted(before, prog_qasm)
        IN /\ prog_call.err = "none"
           /\ IsPrefix(before.instrs, prog_qasm.instrs)
           /\ rows # <<>>
           /\ rows[1].instr = "set_awg_gain"
           /\ Tail(rows) =
                  StitchedLayout(D, stitch_label(
                                        [instrs |-> before.instrs
                                                        \o <<rows[1]>>]))
                  \o <<Row("", "set_awg_gain", <<0, 0>>, <<>>)>>
           /\ prog_qasm.elapsed_time = before.elapsed_time + D

\* What the code does: the final set_awg_gain 0,0 only follows a residual
\* play
StitchingOfCode ==
    (prog_call.name = "stitched_insert_qasm"
        /\ prog_call.duration % GRID_TIME_ns = 0) =>
        LET D == prog_call.duration
            before == prog_call.before
            rows == Emitted(before, prog_qasm)
        IN /\ prog_call.err = "none"
           /\ rows[1].instr = "set_awg_gain"
           /\ Tail(rows) =
                  StitchedLayout(D, stitch_label(
                                        [instrs |-> before.instrs
                                                        \o <<rows[1]>>]))
                  \o (IF D % PULSE_STITCHING_DURATION_ns # 0
                      THEN <<Row("", "set_awg_gain", <<0, 0>>, <<>>)>>
                      ELSE <<>>)
           /\ prog_qasm.elapsed_time = before.elapsed_time + D

-----------------------------------------------------------------------------
(* Properties of the staircase pulse *)

\* The content of a 32-bit register after a value has been moved into it
Mod32(w) == [hi |-> w.hi % HalfWord, lo |-> w.lo]

\* The signed immediates of the staircase of the last call
StaircaseStartImmediate ==
    (prog_call.pulse.start_amp * IMMEDIATE_SZ) \div (2 * awg_output_volt_mV)

StaircaseStepImmediate ==
    ((prog_call.pulse.final_amp - prog_call.pulse.start_amp) * IMMEDIATE_SZ)
        \div (2 * (prog_call.pulse.num_steps - 1) * awg_output_volt_mV)

\* The operand of `move <start>,offs_reg` in the emitted staircase
StaircaseMoved == Emitted(prog_call.before, prog_qasm)[2].args[1]

\* The offset register after k add/sub steps, starting from the moved value
StaircaseRegister(k) == Mod32(WideAdd(Mod32(StaircaseMoved), WideOf(k * StaircaseStepImmediate)))

StaircaseEmitted ==
    /\ prog_call.name = "staircase_insert_qasm"
    /\ prog_call.err = "none"

\* C29: in the staircase strategy the value moved into the 32-bit offset
\* register is the signed start immediate modulo 2^32 (two's complement),
\* so that after k add/sub steps of the signed step immediate the register
\* holds (start + k * step) mod 2^32, for every k up to num_steps - 1
C29_StaircaseRegister ==
    StaircaseEmitted =>
        /\ StaircaseMoved = Mod32(WideOf(StaircaseStartImmediate))
        /\ \A k \in 0..(prog_call.pulse.num_steps - 1) :
               StaircaseRegister(k) = Mod32(WideOf(StaircaseStartImmediate + k * StaircaseStepImmediate))

\* What the code moves: the start immediate itself when it is not negative,
\* and the start immediate plus 2^32 - 1 when it is negative, which is one
\* less than its two's complement, in every step
StaircaseOfCode ==
    StaircaseEmitted =>
        \A k \in 0..(prog_call.pulse.num_steps - 1) :
            StaircaseRegister(k) =
                IF StaircaseStartImmediate < 0
                THEN Mod32(WideOf(StaircaseStartImmediate + k * StaircaseStepImmediate - 1))
                ELSE Mod32(WideOf(StaircaseStartImmediate + k * StaircaseStepImmediate))

\* A staircase with a negative start amplitude has been emitted
StaircaseNegativeStart ==
    /\ StaircaseEmitted
    /\ StaircaseStartImmediate < 0

-----------------------------------------------------------------------------
(* Properties of the emitter: elapsed time and timing conflicts *)

\* An iteration of the loop of generate_qasm_program that did not raise
OperationEmitted == pc = "body" /\ op_queue # <<>> /\ pc' = "body"

\* C25: during body emission elapsed_time never decreases from one emitted
\* instruction to the next (every wait, play and acquire takes a positive
\* time), and immediately after the play or acquire of an operation has
\* been emitted elapsed_time is the start time of the operation in ns (the
\* integer that to_pulsar_time returns) plus 4
C25_ElapsedTime ==
    [][/\ qasm'.elapsed_time >= qasm.elapsed_time
       /\ \A i \in 1..Len(Emitted(qasm, qasm')) :
              IsTimed(Emitted(qasm, qasm')[i])
                  => DurationOperand(Emitted(qasm, qasm')[i]) > 0
       /\ OperationEmitted =>
              LET op == Head(op_queue)
                  rows == Emitted(qasm, qasm')
              IN /\ rows # <<>>
                 /\ rows[Len(rows)].instr =
                        (IF op.is_acquisition THEN "acquire" ELSE "play")
                 /\ qasm'.elapsed_time =
                        RoundToNs(op.timing) + GRID_TIME_ns]_vars

\* An acquisition that starts more than one wait immediate after the
\* operation before it has been emitted
C25_Witness ==
    /\ pc = "body"
    /\ operation # None
    /\ Val(operation).is_acquisition
    /\ Val(operation).timing = Ns(65536)
    /\ qasm.elapsed_time = 65536 + GRID_TIME_ns
    /\ Len(qasm.instrs) > 6

\* The operations of the sequencer in the order of emission, and how many
\* of them have their play or acquire in the program
SortedOperations == SortOps(pulses \o acquisitions)

NumEmitted ==
    Cardinality({i \in 1..Len(qasm.instrs) :
                    qasm.instrs[i].instr \in {"play", "acquire"}})

SameInstant ==
    \E i, j \in 1..Len(SortedOperations) :
        /\ i # j
        /\ SortedOperations[i].timing = SortedOperations[j].timing

\* C30: two operations (play or acquire) of one sequencer are both emitted
\* only if their start times (in ns, as to_pulsar_time returns them) differ
\* by at least 4 ns; whenever two operations of the sequencer start at the
\* same instant, a pulse and an acquisition included,
\* generate_qasm_program ends with ValueError and returns no program
C30_TimingConflict ==
    /\ \A i, j \in 1..NumEmitted :
           i < j => RoundToNs(SortedOperations[j].timing)
                        >= RoundToNs(SortedOperations[i].timing) + GRID_TIME_ns
    /\ (SameInstant /\ awg_dict # None /\ Finished)
           => /\ pc = "error"
              /\ err = "ValueError"

\* A pulse and an acquisition at the same instant: the play has been
\* emitted, the acquisition raised
C30_Witness ==
    /\ pc = "error"
    /\ err = "ValueError"
    /\ operation # None
    /\ Val(operation).is_acquisition
    /\ NumEmitted = 1
    /\ \E i \in 1..Len(pulses) : pulses[i].timing = Val(operation).timing
    /\ to_pulsar_time(Val(operation).timing).err = "none"

-----------------------------------------------------------------------------
(* Properties of the emitter: order of the lists *)

\* The lists with the same elements as seq, in every order
Reorderings(seq) ==
    {[i \in 1..Len(seq) |-> seq[f[i]]] : f \in Permutations(1..Len(seq))}

\* generate_qasm_program has been called and has ended
ProgramGenerated == Finished /\ awg_dict # None

\* The kinds of the operations in the order in which the program has them
EmittedKinds(instrs) ==
    SelectSeq([i \in 1..Len(instrs) |-> instrs[i].instr],
              LAMBDA kind : kind \in {"play", "acquire"})

\* C28: the program does not depend on the order of the pulse list and of
\* the acquisition list: for every reordering of the two lists
\* generate_qasm_program fails if the run on the lists as given failed, and
\* returns the same program if it returned one; the operations are taken in
\* non-decreasing start time and, at equal start time, pulses before
\* acquisitions
C28_OrderIndependent ==
    /\ ProgramGenerated =>
           \A ps \in Reorderings(pulses), acqs \in Reorderings(acquisitions) :
               LET r == generate_qasm_program(total_play_time, ps, awg_dict,
                                              acqs, acq_dict, repetitions)
               IN IF pc = "done" THEN r = Ok(qasm) ELSE r.err # "none"
    /\ \A i, j \in 1..Len(op_queue) :
           i < j => /\ op_queue[i].timing <= op_queue[j].timing
                    /\ op_queue[i].timing = op_queue[j].timing
                           => (op_queue[i].is_acquisition
                                  => op_queue[j].is_acquisition)
    /\ pc = "done" =>
           EmittedKinds(qasm.instrs) =
               [i \in 1..Len(SortedOperations) |->
                   IF SortedOperations[i].is_acquisition THEN "acquire"
                   ELSE "play"]

\* A program has been returned for lists that are not in the order of the
\* start times: the second pulse starts before the first, and an
\* acquisition comes between them
C28_Witness ==
    /\ pc = "done"
    /\ Len(pulses) = 2
    /\ Len(acquisitions) = 1
    /\ pulses[2].timing < acquisitions[1].timing
    /\ acquisitions[1].timing < pulses[1].timing

-----------------------------------------------------------------------------
(* The same pulse compiled several times, in one interpreter or in several *)

MaxRuns == 3

\* Seeds of hash() that an interpreter may start with
HashSeeds == {0, 1, 2}

\* The pulse is compiled for a sequencer of its own: its waveform table
\* (names, data and indices), the indices of its strategy and its program
CompileWaveforms ==
    /\ Len(det_runs) < MaxRuns
    /\ \E uuid \in WfUuids :
           \E d \in {generate_data(<<>>, uuid, "complex")}, c \in {sequencer_compile(<<OpInfo(uuid, Ns(0), FALSE)>>, <<>>, "QCM", Ns(Duration(uuid)), 1)} :
               det_runs' = Append(det_runs, [process |-> hash_seed, uuid |-> uuid, wf_dict |-> d.wf_dict, strategy |-> d.strategy, program |-> c.program, err |-> c.err])
    /\ UNCHANGED hash_seed
    /\ UNCHANGED not_det_vars

\* A new interpreter is started: hash() gets another seed
StartProcess ==
    /\ Len(det_runs) < MaxRuns
    /\ \E seed \in HashSeeds \ {hash_seed} : hash_seed' = seed
    /\ UNCHANGED det_runs
    /\ UNCHANGED not_det_vars

StartDet ==
    /\ hash_seed \in HashSeeds
    /\ det_runs = <<>>

NextDet == CompileWaveforms \/ StartProcess

InitDet ==
    StartDet /\ IdleQasm /\ IdleFreq /\ IdleAssign /\ IdleMap /\ IdleWf
        /\ IdleAmp /\ IdleDist /\ IdleProg /\ IdlePb

SpecDet == InitDet /\ [][NextDet]_vars

\* The names, data and indices of a waveform table
WaveformNames(table) == [i \in 1..Len(table) |-> table[i].key]

WaveformIndices(table) == [i \in 1..Len(table) |-> table[i].index]

WaveformSamples(table) == [i \in 1..Len(table) |-> table[i].data]

SameInput(i, j) == det_runs[i].uuid = det_runs[j].uuid

\* C22: compilation is deterministic: two compilations of the same input,
\* in the same process or in different processes, produce identical
\* programs, waveform names, waveform indices and settings
C22_Deterministic ==
    \A i, j \in 1..Len(det_runs) :
        SameInput(i, j) =>
            /\ det_runs[i].program = det_runs[j].program
            /\ det_runs[i].err = det_runs[j].err
            /\ det_runs[i].strategy = det_runs[j].strategy
            /\ WaveformIndices(det_runs[i].wf_dict) = WaveformIndices(det_runs[j].wf_dict)
            /\ WaveformNames(det_runs[i].wf_dict) = WaveformNames(det_runs[j].wf_dict)

\* What the code gives: programs, indices and samples are the same in every
\* process, the names are the same exactly when the seed of hash() is
DeterministicUpToNames ==
    \A i, j \in 1..Len(det_runs) :
        SameInput(i, j) =>
            /\ det_runs[i].program = det_runs[j].program
            /\ det_runs[i].err = det_runs[j].err
            /\ det_runs[i].strategy = det_runs[j].strategy
            /\ WaveformIndices(det_runs[i].wf_dict) = WaveformIndices(det_runs[j].wf_dict)
            /\ WaveformSamples(det_runs[i].wf_dict) = WaveformSamples(det_runs[j].wf_dict)
            /\ (WaveformNames(det_runs[i].wf_dict) = WaveformNames(det_runs[j].wf_dict))
                   <=> (det_runs[i].process = det_runs[j].process)

-----------------------------------------------------------------------------
(* pulsar_assembler_backend and the Schedule object that it is given *)

MaxConstraints == 2

MaxCompiles == 2

\* _portclock
portclock_id(port, clock) == port \o "_" \o clock

\* The inverted hardware mapping: a QCM drives q0:mw, a QRM drives q0:res
PbMapping ==
    <<[key |-> portclock_id("q0:mw", "q0.01"),
       value |-> [type |-> "Pulsar_QCM", lo_freq |-> None,
                  interm_freq |-> Some(50)]],
      [key |-> portclock_id("q0:res", "q0.ro"),
       value |-> [type |-> "Pulsar_QRM", lo_freq |-> Some(7200),
                  interm_freq |-> None]]>>

\* A record of pulse_info or acquisition_info; amp in mV, t0 in half ns
PulseInfo(port, clock, wf_func, amp, acq_index) ==
    [port |-> port, clock |-> clock, wf_func |-> wf_func, amp |-> amp,
     t0 |-> Ns(0), duration |-> 20, acq_index |-> acq_index]

\* schedule.operations: a pulse on q0:mw, an idle operation without port, a
\* pulse on a port that the mapping does not have, a pulse with an unknown
\* waveform, a measurement (pulse and acquisition on q0:res), the same
\* with acq_index 1, and an operation without pulse info
PbOperations ==
    <<[key |-> "X", value |-> [pulse_info |-> <<PulseInfo(Some("q0:mw"), "q0.01", "square", 500, None)>>, acquisition_info |-> <<>>]],
      [key |-> "Idle", value |-> [pulse_info |-> <<PulseInfo(None, "cl0.baseband", "none", 0, None)>>, acquisition_info |-> <<>>]],
      [key |-> "Unmapped", value |-> [pulse_info |-> <<PulseInfo(Some("q1:mw"), "q1.01", "square", 500, None)>>, acquisition_info |-> <<>>]],
      [key |-> "Unknown", value |-> [pulse_info |-> <<PulseInfo(Some("q0:mw"), "q0.01", "chirp", 500, None)>>, acquisition_info |-> <<>>]],
      [key |-> "Measure", value |-> [pulse_info |-> <<PulseInfo(Some("q0:res"), "q0.ro", "square", 250, None)>>, acquisition_info |-> <<PulseInfo(Some("q0:res"), "q0.ro", "square", 1000, Some(0))>>]],
      [key |-> "Binned", value |-> [pulse_info |-> <<PulseInfo(Some("q0:res"), "q0.ro", "square", 250, None)>>, acquisition_info |-> <<PulseInfo(Some("q0:res"), "q0.ro", "square", 1000, Some(1))>>]],
      [key |-> "Empty", value |-> [pulse_info |-> <<>>, acquisition_info |-> <<>>]]>>

OperationHashes == {PbOperations[i].key : i \in 1..Len(PbOperations)}

\* abs_time of a timing constraint in half ns; None before the timing of
\* the schedule has been determined
PbAbsTimes == {None, Some(Ns(0)), Some(Ns(100))}

\* schedule.resources before the first compilation: the clocks
PbClocks ==
    <<[key |-> "q0.01", value |-> [type |-> "ClockResource", freq |-> 5000]],
      [key |-> "q0.ro", value |-> [type |-> "ClockResource", freq |-> 7000]],
      [key |-> "q1.01", value |-> [type |-> "ClockResource", freq |-> 5100]]>>

\* without(p, ["t0"]): the fingerprint of the pulse is the record itself
without_t0(p) == [f \in DOMAIN p \ {"t0"} |-> p[f]]

\* _prepare_pulse: the modulation parameters (the line gain is 0 dB) and
\* the description with the amplitude set to 1.0
prepare_pulse(description) ==
    IF description.wf_func \in {"square", "soft_square", "ramp"}
    THEN [err |-> "none",
          params |-> Some([gain_I |-> description.amp,
                           gain_Q |-> description.amp]),
          p |-> [description EXCEPT !.amp = 1000]]
    ELSE IF description.wf_func = "none"
    THEN [err |-> "none", params |-> None, p |-> description]
    ELSE [err |-> "ValueError", params |-> None, p |-> description]

\* QCM_sequencer / QRM_sequencer
sequencer_resource(name, type, port, clock, interm_freq, lo_freq) ==
    [type |-> type, name |-> name, port |-> port, clock |-> clock,
     interm_freq |-> interm_freq, lo_freq |-> lo_freq,
     timing_tuples |-> <<>>, pulse_dict |-> <<>>]

\* The body of the loop over pulse_info + acquisition_info for one record
\* p_ref of an operation with timing constraint t_constr
pulsar_assembler_pulse(res, t_constr, p_ref) ==
    IF t_constr.abs_time = None THEN Raise(res, "ValueError")
    ELSE IF p_ref.port = None THEN Ok(res)
    ELSE IF ~HasKey(PbMapping, portclock_id(Val(p_ref.port), p_ref.clock)) THEN Raise(res, "ValueError")
    ELSE LET port == Val(p_ref.port)
             portclock == portclock_id(port, p_ref.clock)
             hw == Lookup(PbMapping, portclock).value
             prepared == prepare_pulse(p_ref)
             t0 == Val(t_constr.abs_time) + prepared.p.t0
             pulse_id == without_t0(prepared.p)
             f == extract_interm_freq(hw.lo_freq, hw.interm_freq, Lookup(res, p_ref.clock).value.freq)
             type == IF hw.type = "Pulsar_QCM" THEN "QCM_sequencer" ELSE "QRM_sequencer"
             created == IF HasKey(res, portclock) THEN res ELSE Append(res, [key |-> portclock, value |-> sequencer_resource(portclock, type, port, p_ref.clock, f.f_IF, f.f_LO)])
             seq == Lookup(created, portclock).value
             timed == [seq EXCEPT !.timing_tuples = Append(@, <<RoundToNs(t0), pulse_id, prepared.params>>)]
             stored == IF HasKey(timed.pulse_dict, pulse_id) THEN timed ELSE [timed EXCEPT !.pulse_dict = Append(@, [key |-> pulse_id, value |-> pulse_id.duration])]
         IN IF prepared.err # "none" THEN Raise(res, prepared.err)
            ELSE IF p_ref.acq_index # None /\ Val(p_ref.acq_index) > 0 THEN Raise(res, "NotImplementedError")
            ELSE IF ~HasKey(res, portclock) /\ f.err # "none" THEN Raise(res, "ValueError")
            ELSE Ok(SetKey(created, portclock, stored))

RECURSIVE pulsar_assembler_records(_, _, _)
pulsar_assembler_records(res, t_constr, refs) ==
    IF refs = <<>> THEN Ok(res)
    ELSE CHOOSE result \in
             {IF r.err # "none" THEN r
              ELSE pulsar_assembler_records(r.q, t_constr, Tail(refs)) :
                 r \in {pulsar_assembler_pulse(res, t_constr,
                                               Head(refs))}} : TRUE

\* The loop of pulsar_assembler_backend over schedule.timing_constraints;
\* an exception leaves the resources as the loop had them by then
RECURSIVE pulsar_assembler_loop(_, _, _)
pulsar_assembler_loop(operations, res, constraints) ==
    IF constraints = <<>> THEN Ok(res)
    ELSE LET op == Lookup(operations, Head(constraints).operation_hash).value
         IN IF Len(op.pulse_info) = 0 THEN Raise(res, "ValueError")
            ELSE CHOOSE result \in
                     {IF r.err # "none" THEN r
                      ELSE pulsar_assembler_loop(operations, r.q,
                                                 Tail(constraints)) :
                         r \in {pulsar_assembler_records(
                                    res, Head(constraints),
                                    op.pulse_info \o op.acquisition_info)}} :
                     TRUE

\* pulsar_assembler_backend(schedule, mapping); the sequencer files are
\* then written from the resources, which reads the schedule only
PulsarAssemblerBackend ==
    /\ pb_calls < MaxCompiles
    /\ \E r \in {pulsar_assembler_loop(pb_schedule.operations, pb_schedule.resources, pb_schedule.timing_constraints)} :
           /\ pb_schedule' = [pb_schedule EXCEPT !.resources = r.q]
           /\ pb_call' = [name |-> "pulsar_assembler_backend", before |-> pb_schedule, loop_err |-> r.err]
    /\ pb_calls' = pb_calls + 1
    /\ UNCHANGED not_pb_vars

StartPb ==
    /\ \E constraints \in SeqsUpTo([operation_hash : OperationHashes, abs_time : PbAbsTimes], MaxConstraints) :
           pb_schedule = [operations |-> PbOperations, timing_constraints |-> constraints, resources |-> PbClocks]
    /\ pb_call = NoPbCall
    /\ pb_calls = 0

NextPb == PulsarAssemblerBackend

InitPb ==
    StartPb /\ IdleQasm /\ IdleFreq /\ IdleAssign /\ IdleMap /\ IdleWf
        /\ IdleAmp /\ IdleDist /\ IdleProg /\ IdleDet

SpecPb == InitPb /\ [][NextPb]_vars

Compiled == pb_call.name = "pulsar_assembler_backend"

\* C23: compilation leaves the input schedule unchanged: after a call,
\* successful or failed, the operations, the timing constraints and the
\* resources of the schedule are exactly what they were before the call
C23_ScheduleUnchanged ==
    Compiled =>
        /\ pb_schedule.operations = pb_call.before.operations
        /\ pb_schedule.timing_constraints = pb_call.before.timing_constraints
        /\ pb_schedule.resources = pb_call.before.resources

\* The timing tuples that the sequencer resources of a schedule hold
NumTimingTuples(res) ==
    SumSeq([i \in 1..Len(res) |->
               IF res[i].value.type = "ClockResource" THEN 0
               ELSE Len(res[i].value.timing_tuples)])

\* The records with a port of the operations of the first n constraints
RECURSIVE NumRecords(_, _)
NumRecords(sched, n) ==
    IF n = 0 THEN 0
    ELSE LET op == Lookup(sched.operations, sched.timing_constraints[n].operation_hash).value
             refs == op.pulse_info \o op.acquisition_info
         IN NumRecords(sched, n - 1) + Cardinality({i \in 1..Len(refs) : refs[i].port # None})

\* What the code does: operations and timing constraints are left alone and
\* no resource is removed, but a call that does not raise adds a timing
\* tuple to a sequencer resource of the schedule for every record with a
\* port, on top of those that earlier calls left there
ScheduleOfCode ==
    Compiled =>
        /\ pb_schedule.operations = pb_call.before.operations
        /\ pb_schedule.timing_constraints = pb_call.before.timing_constraints
        /\ Len(pb_schedule.resources) >= Len(pb_call.before.resources)
        /\ \A i \in 1..Len(pb_call.before.resources) :
               pb_schedule.resources[i].key = pb_call.before.resources[i].key
        /\ pb_call.loop_err = "none" =>
               NumTimingTuples(pb_schedule.resources) =
                   NumTimingTuples(pb_call.before.resources)
                       + NumRecords(pb_schedule, Len(pb_schedule.timing_constraints))

=============================================================================
